---------------------------- MODULE Spec2Model ----------------------------
(***************************************************************************)
(* A model of earthkit-data's GRIB metadata layer:                         *)
(*   - readers/grib/gridspec.py : the GridSpecMaker family and dispatch    *)
(*   - readers/grib/metadata.py : GribFieldGeography, GribMetadata         *)
(*     (override), RestrictedGribMetadata                                  *)
(*                                                                         *)
(* Python values are encoded as follows.  A value that may be None is an   *)
(* option: <<>> is None and <<v>> is the value v.  A float is a rational   *)
(* [n |-> numerator, d |-> denominator] in lowest terms with d > 0.  A     *)
(* dict is a function from its keys.  A call that may raise returns        *)
(* [err |-> "ok", v |-> value] or [err |-> <exception class>, v |-> why].  *)
(***************************************************************************)
EXTENDS Integers, Sequences, FiniteSets, TLC

VARIABLES
    md,         \* SpecGrid/SpecGeo: the metadata view handed to a Maker or a Geography
    gs,         \* SpecGrid: outcome of make_gridspec(md)
    handles,    \* SpecMeta/SpecView: the ecCodes handles, by identity (index)
    facades,    \* SpecMeta/SpecView: the metadata facades, by identity (index)
    last,       \* SpecMeta/SpecView: the last call made on a facade and its result
    eccVersion, \* SpecGeo: ECC_FEATURES.version
    geo,        \* SpecGeo: outcome of GribFieldGeography(md)
    coordReads, \* SpecGeo: number of latitude/longitude reads made through the accessor
    shp,        \* SpecGeo: outcome of GribFieldGeography.shape()
    callers,    \* SpecUnrotate: each caller's position in latitudes/longitudes_unrotated
    serialized, \* SpecUnrotate: whether the callers hold a lock on the facade for a whole call
    SETTINGS,   \* SpecSettings: the module-level Settings object, with its stack of temporary settings
    yamlFile,   \* SpecSettings: what the settings file holds
    entered     \* SpecSettings: history, for each active context what it found on entry

vars ==
    <<md, gs, handles, facades, last, eccVersion, geo, coordReads, shp, callers, serialized, SETTINGS, yamlFile, entered>>

---------------------------------------------------------------------------
(* Bounds of the model *)

\* Largest real point count drawn for a point-count key.
MaxCount == 2

\* Largest number of handles alive in SpecMeta (the original and its clones).
MaxHandles == 3

\* Largest number of coordinate reads counted in SpecGeo.
MaxReads == 2

\* Number of callers of the unrotated-coordinate reads in SpecUnrotate.
NumCallers == 2

---------------------------------------------------------------------------
(* Python values *)

None == <<>>

Some(v) == <<v>>

Ok(v) == [err |-> "ok", v |-> v]

Err(e, why) == [err |-> e, v |-> why]

RECURSIVE GCD(_, _)
GCD(a, b) == IF b = 0 THEN a ELSE GCD(b, a % b)

IntAbs(x) == IF x < 0 THEN -x ELSE x

\* The rational p/q (q # 0) in lowest terms with a positive denominator.
Rat(p, q) ==
    LET g == GCD(IntAbs(p), IntAbs(q))
        s == IF q < 0 THEN -1 ELSE 1
    IN  [n |-> (s * p) \div g, d |-> (s * q) \div g]

\* Python's a / b on numbers: ZeroDivisionError when b is zero.
PyDiv(a, b) ==
    IF b = 0 THEN Err("ZeroDivisionError", "division by zero") ELSE Ok(Rat(a, b))

\* Python's abs() on a float.
PyAbs(r) == [n |-> IntAbs(r.n), d |-> r.d]

IntMax(a, b) == IF a >= b THEN a ELSE b

IntMin(a, b) == IF a <= b THEN a ELSE b

---------------------------------------------------------------------------
(* readers/grib/gridspec.py *)

\* grib keys -> gridspec keys
vocabulary ==
    [ Nx |-> "nx", Ny |-> "ny", Ni |-> "ni", Nj |-> "nj",
      DxInMetres |-> "dx_in_metres", DyInMetres |-> "dy_in_metres",
      xDirectionGridLengthInMetres |-> "dx_in_metres",
      yDirectionGridLengthInMetres |-> "dy_in_metres",
      LaDInDegrees |-> "lad", LoVInDegrees |-> "lov",
      Latin1InDegrees |-> "latin1", Latin2InDegrees |-> "latin2",
      latitudeOfSouthernPoleInDegrees |-> "lat_south_pole",
      longitudeOfSouthernPoleInDegrees |-> "lon_south_pole",
      orientationOfTheGridInDegrees |-> "orientation",
      jPointsAreConsecutive |-> "j_points_consecutive",
      iScansNegatively |-> "i_scans_negatively",
      jScansPositively |-> "j_scans_positively",
      angleOfRotationInDegrees |-> "angle_of_rotation",
      standardParallelInDegrees |-> "standard_parallel",
      centralLongitudeInDegrees |-> "central_longitude",
      shapeOfTheEarth |-> "shape_of_the_earth", radius |-> "radius",
      earthMajorAxis |-> "earth_major_axis", earthMinorAxis |-> "earth_minor_axis" ]

\* The integer ecCodes returns for a missing long key.
MISSING == 2147483647

missing_is_none(x) == IF x = Some(MISSING) THEN None ELSE x

POSITIVE_SCAN_DIR == 1

NEGATIVE_SCAN_DIR == -1

\* The keys a metadata view of the model holds (each one present or absent).
MdKeys ==
    { "gridType",
      "longitudeOfFirstGridPointInDegrees", "longitudeOfLastGridPointInDegrees",
      "latitudeOfFirstGridPointInDegrees", "latitudeOfLastGridPointInDegrees",
      "latitudeOfSouthernPoleInDegrees", "longitudeOfSouthernPoleInDegrees",
      "angleOfRotationInDegrees",
      "iScansNegatively", "iScansPositively", "jPointsAreConsecutive", "jScansPositively",
      "iDirectionIncrementInDegrees", "jDirectionIncrementInDegrees",
      "numberOfPointsAlongAParallel", "Ni", "numberOfPointsAlongAMeridian", "Nj",
      "numberOfDataPoints",
      "N", "global", "isOctahedral",
      "DiInMetres", "DjInMetres", "DxInMetres", "DyInMetres",
      "xDirectionGridLengthInMetres", "yDirectionGridLengthInMetres",
      "Nx", "Ny", "LaDInDegrees", "LoVInDegrees", "orientationOfTheGridInDegrees",
      "LatIn1InDegrees", "LatIn2InDegrees", "Latin1InDegrees", "Latin2InDegrees",
      "standardParallelInDegrees", "centralLongitudeInDegrees",
      "iteratorDisableUnrotate", "DxInDegrees", "DyInDegrees", "gridName" }

\* md.get(key, None)
MdGet(m, key) == m[key]

\* GridSpecMaker._get_first_valid
RECURSIVE get_first_valid(_, _, _)
get_first_valid(m, keys, desc) ==
    IF keys = <<>> THEN Err("ValueError", <<"Could not determine", desc>>)
    ELSE IF MdGet(m, Head(keys)) # None THEN Ok(MdGet(m, Head(keys))[1])
    ELSE get_first_valid(m, Tail(keys), desc)

first_lon(m) == MdGet(m, "longitudeOfFirstGridPointInDegrees")

last_lon(m) == MdGet(m, "longitudeOfLastGridPointInDegrees")

first_lat(m) == MdGet(m, "latitudeOfFirstGridPointInDegrees")

last_lat(m) == MdGet(m, "latitudeOfLastGridPointInDegrees")

\* max()/min() of two values raise TypeError when one of them is None.
north(m) ==
    IF first_lat(m) = None \/ last_lat(m) = None
    THEN Err("TypeError", "max of None")
    ELSE Ok(IntMax(first_lat(m)[1], last_lat(m)[1]))

south(m) ==
    IF first_lat(m) = None \/ last_lat(m) = None
    THEN Err("TypeError", "min of None")
    ELSE Ok(IntMin(first_lat(m)[1], last_lat(m)[1]))

x_scan_dir_swapped(m) ==
    IF MdGet(m, "iScansNegatively") # None
    THEN Ok(IF MdGet(m, "iScansNegatively")[1] = 0 THEN POSITIVE_SCAN_DIR ELSE NEGATIVE_SCAN_DIR)
    ELSE IF MdGet(m, "iScansPositively") # None
    THEN Ok(IF MdGet(m, "iScansPositively")[1] = 0 THEN POSITIVE_SCAN_DIR ELSE NEGATIVE_SCAN_DIR)
    ELSE Err("ValueError", "Could not determine i-direction scanning mode")

x_scan_dir(m) ==
    IF MdGet(m, "iScansNegatively") # None
    THEN Ok(IF MdGet(m, "iScansNegatively")[1] = 0 THEN POSITIVE_SCAN_DIR ELSE NEGATIVE_SCAN_DIR)
    ELSE IF MdGet(m, "iScansPositively") # None
    THEN Ok(IF MdGet(m, "iScansPositively")[1] = 1 THEN POSITIVE_SCAN_DIR ELSE NEGATIVE_SCAN_DIR)
    ELSE Err("ValueError", "Could not determine i-direction scanning mode")

west(m) ==
    LET s == x_scan_dir(m) IN
    IF s.err # "ok" THEN s
    ELSE IF s.v = POSITIVE_SCAN_DIR THEN Ok(first_lon(m)) ELSE Ok(last_lon(m))

east(m) ==
    LET s == x_scan_dir(m) IN
    IF s.err # "ok" THEN s
    ELSE IF s.v = POSITIVE_SCAN_DIR THEN Ok(last_lon(m)) ELSE Ok(first_lon(m))

\* A west of GaussianGridSpecMaker that is the inherited one
Gaussian_west_by_scan(m) == west(m)

\* GaussianGridSpecMaker.west / east
Gaussian_west(m) == Ok(first_lon(m))

Gaussian_east(m) == Ok(last_lon(m))

\* [self.north(), self.west(), self.south(), self.east()], evaluated left to right;
\* gaussian selects the overriding west/east of GaussianGridSpecMaker.
area_of(m, gaussian) ==
    LET n == north(m)
        w == IF gaussian THEN Gaussian_west(m) ELSE west(m)
        s == south(m)
        e == IF gaussian THEN Gaussian_east(m) ELSE east(m)
    IN  IF n.err # "ok" THEN n
        ELSE IF w.err # "ok" THEN w
        ELSE IF s.err # "ok" THEN s
        ELSE IF e.err # "ok" THEN e
        ELSE Ok(<<Some(n.v), w.v, Some(s.v), e.v>>)

\* GridSpecMaker._add_one, on the outcome r of the statements before it
add_one(m, key, r) ==
    IF r.err # "ok" THEN r
    ELSE IF MdGet(m, key) = None THEN r
    ELSE IF key \in DOMAIN vocabulary
         THEN Ok((vocabulary[key] :> MdGet(m, key)[1]) @@ r.v)
         ELSE Err("ValueError", <<"not found in vocabulary", key>>)

\* GridSpecMaker._add with a list of keys
RECURSIVE add(_, _, _)
add(m, keys, r) ==
    IF keys = <<>> THEN r ELSE add(m, Tail(keys), add_one(m, Head(keys), r))

\* An _add_rotation that does not look at ROTATED
add_rotation_always(m, rotated, r) ==
    IF r.err # "ok" THEN r
    ELSE add_one(m, "angleOfRotationInDegrees",
                 Ok(("rotation" :> << MdGet(m, "latitudeOfSouthernPoleInDegrees"),
                                      MdGet(m, "longitudeOfSouthernPoleInDegrees") >>) @@ r.v))

\* GridSpecMaker._add_rotation
add_rotation(m, rotated, r) ==
    IF r.err # "ok" \/ ~rotated THEN r
    ELSE add_one(m, "angleOfRotationInDegrees",
                 Ok(("rotation" :> << MdGet(m, "latitudeOfSouthernPoleInDegrees"),
                                      MdGet(m, "longitudeOfSouthernPoleInDegrees") >>) @@ r.v))

add_scan_mode(m, r) ==
    add(m, <<"jPointsAreConsecutive", "iScansNegatively", "jScansPositively">>, r)

\* One axis of LatLonGridSpecMaker._get_grid: the explicit increment key when it
\* is present, else the range divided by the point count minus one.
axis_increment_nospecial(m, incKey, countKeys, desc, firstV, lastV) ==
    IF MdGet(m, incKey) # None THEN Ok(Rat(MdGet(m, incKey)[1], 1))
    ELSE LET c == get_first_valid(m, countKeys, desc) IN
         IF c.err # "ok" THEN c
         ELSE IF firstV = None \/ lastV = None THEN Err("TypeError", "None - None")
         ELSE PyDiv(lastV[1] - firstV[1], c.v - 1)

axis_increment(m, incKey, countKeys, desc, firstV, lastV) ==
    IF MdGet(m, incKey) # None THEN Ok(Rat(MdGet(m, incKey)[1], 1))
    ELSE LET c == get_first_valid(m, countKeys, desc) IN
         IF c.err # "ok" THEN c
         ELSE IF firstV = None \/ lastV = None THEN Err("TypeError", "None - None")
         ELSE IF c.v = 1 THEN Ok(Rat(1, 1))
         ELSE PyDiv(lastV[1] - firstV[1], c.v - 1)

LatLon_dx(m) ==
    axis_increment(m, "iDirectionIncrementInDegrees",
                   <<"numberOfPointsAlongAParallel", "Ni">>,
                   "number of points in longitude", first_lon(m), last_lon(m))

LatLon_dy(m) ==
    axis_increment(m, "jDirectionIncrementInDegrees",
                   <<"numberOfPointsAlongAMeridian", "Nj">>,
                   "number of points in latitude", first_lat(m), last_lat(m))

\* LatLonGridSpecMaker._get_grid: Ok(<<dx, dy>>) or the first error raised
LatLon_get_grid(m) ==
    LET dx == LatLon_dx(m)
        dy == LatLon_dy(m)
    IN  IF dx.err # "ok" THEN dx
        ELSE IF dy.err # "ok" THEN dy
        ELSE Ok(<<dx.v, dy.v>>)

\* ReducedLatLonGridSpecMaker._get_grid: (None, dy)
ReducedLatLon_get_grid(m) ==
    LET dy == LatLon_dy(m)
    IN  IF dy.err # "ok" THEN dy ELSE Ok(<<None, dy.v>>)

\* md.get(key) for both metric increment keys (Mercator, PolarStereographic, Lambert)
metric_get_grid(m, xKey, yKey) == Ok(<<MdGet(m, xKey), MdGet(m, yKey)>>)

\* LambertAEAGridSpecMaker._get_grid
LambertAEA_get_grid(m) ==
    LET dx == get_first_valid(m, <<"DyInMetres", "xDirectionGridLengthInMetres">>,
                              "x grid increment in metres")
        dy == get_first_valid(m, <<"DyInMetres", "yDirectionGridLengthInMetres">>,
                              "y grid increment in metres")
    IN  IF dx.err # "ok" THEN dx
        ELSE IF dy.err # "ok" THEN dy
        ELSE Ok(<<Some(dx.v), Some(dy.v)>>)

\* d["grid"] = [abs(dx), abs(dy)] without the abs()
LatLon_grid_signed(m) ==
    LET g == LatLon_get_grid(m) IN
    IF g.err # "ok" THEN g ELSE Ok(<<g.v[1], g.v[2]>>)

\* dx, dy = self._get_grid(); d["grid"] = [abs(dx), abs(dy)]  (LatLonGridSpecMaker)
LatLon_grid(m) ==
    LET g == LatLon_get_grid(m) IN
    IF g.err # "ok" THEN g ELSE Ok(<<PyAbs(g.v[1]), PyAbs(g.v[2])>>)

\* _, dy = self._get_grid(); d["grid"] = abs(dy)  (ReducedLatLonGridSpecMaker)
ReducedLatLon_grid(m) ==
    LET g == ReducedLatLon_get_grid(m) IN
    IF g.err # "ok" THEN g ELSE Ok(PyAbs(g.v[2]))

\* d["grid"] = [abs(dx), abs(dy)] on metric increments g that may be None:
\* abs(None) raises TypeError.
metric_grid(g) ==
    IF g.err # "ok" THEN g
    ELSE IF g.v[1] = None \/ g.v[2] = None THEN Err("TypeError", "abs of None")
    ELSE Ok(<<PyAbs(Rat(g.v[1][1], 1)), PyAbs(Rat(g.v[2][1], 1))>>)

\* d["area"] = [...] on the outcome r of the statements before it
with_area(m, gaussian, r) ==
    LET a == area_of(m, gaussian) IN
    IF r.err # "ok" THEN r
    ELSE IF a.err # "ok" THEN a
    ELSE Ok(("area" :> a.v) @@ r.v)

\* d = dict(); d["type"] = self.GRID_TYPE; d["grid"] = g.v, for a grid outcome g
with_type_grid(gridType, g) ==
    IF g.err # "ok" THEN g
    ELSE Ok(("type" :> gridType) @@ ("grid" :> g.v))

\* LatLonGridSpecMaker.make (regular_ll, and rotated_ll with ROTATED)
LatLon_make(m, cls) ==
    add_scan_mode(m,
      add_rotation(m, cls.ROTATED,
        with_area(m, FALSE, with_type_grid(cls.GRID_TYPE, LatLon_grid(m)))))

\* ReducedLatLonGridSpecMaker.make
ReducedLatLon_make(m, cls) ==
    add_scan_mode(m,
      add_rotation(m, cls.ROTATED,
        with_area(m, FALSE, with_type_grid(cls.GRID_TYPE, ReducedLatLon_grid(m)))))

\* A label that does not look at isOctahedral
gaussian_label_never_octahedral(m, cls) ==
    IF cls.family = "reduced_gaussian" THEN "N" ELSE "F"

\* The label ReducedGaussianGridSpecMaker.__init__ picks; "F" for the regular ones.
gaussian_label(m, cls) ==
    IF cls.family = "reduced_gaussian"
    THEN (IF MdGet(m, "isOctahedral") = Some(1) THEN "O" ELSE "N")
    ELSE "F"

\* GaussianGridSpecMaker.make that sets the area of a global grid too
Gaussian_make_always_area(m, cls) ==
    add_scan_mode(m, add_rotation(m, cls.ROTATED,
        with_area(m, TRUE,
            with_type_grid(cls.GRID_TYPE, Ok(<<gaussian_label(m, cls), MdGet(m, "N")>>)))))

\* GaussianGridSpecMaker.make; the grid f"{label}{N}" is the pair <<label, N>>
Gaussian_make(m, cls) ==
    LET global_grid == MdGet(m, "global") = Some(1)
        d0 == with_type_grid(cls.GRID_TYPE, Ok(<<gaussian_label(m, cls), MdGet(m, "N")>>))
        d1 == IF global_grid THEN d0 ELSE with_area(m, TRUE, d0)
    IN  add_scan_mode(m, add_rotation(m, cls.ROTATED, d1))

\* keys = [...] of the make() of the four metric Makers
copied_keys(family) ==
    CASE family = "mercator" -> <<"Ni", "Nj", "LaDInDegrees", "orientationOfTheGridInDegrees">>
      [] family = "polar_stereographic" ->
            <<"Nx", "Ny", "LaDInDegrees", "orientationOfTheGridInDegrees">>
      [] family = "lambert" ->
            <<"Nx", "Ny", "LaDInDegrees", "LoVInDegrees", "LatIn1InDegrees", "LatIn2InDegrees">>
      [] family = "lambert_aea" ->
            <<"Nx", "Ny", "standardParallelInDegrees", "centralLongitudeInDegrees">>
      [] OTHER -> << >>

\* MercatorGridSpecMaker.make
Mercator_make(m, cls) ==
    add_scan_mode(m,
      add(m, copied_keys(cls.family),
        with_area(m, FALSE,
          with_type_grid(cls.GRID_TYPE,
                         metric_grid(metric_get_grid(m, "DiInMetres", "DjInMetres"))))))

\* d["first_point"] = [self.first_lat(), self.first_lon()]
with_first_point(m, r) ==
    IF r.err # "ok" THEN r
    ELSE Ok(("first_point" :> <<first_lat(m), first_lon(m)>>) @@ r.v)

\* PolarStereographicGridSpecMaker.make
PolarStereographic_make(m, cls) ==
    add_scan_mode(m,
      add(m, copied_keys(cls.family),
        with_first_point(m,
          with_type_grid(cls.GRID_TYPE,
                         metric_grid(metric_get_grid(m, "DxInMetres", "DyInMetres"))))))

\* LambertGridSpecMaker.make
Lambert_make(m, cls) ==
    add_scan_mode(m,
      add(m, copied_keys(cls.family),
        with_first_point(m,
          with_type_grid(cls.GRID_TYPE,
                         metric_grid(metric_get_grid(m, "DxInMetres", "DyInMetres"))))))

\* LambertAEAGridSpecMaker.make
LambertAEA_make(m, cls) ==
    add_scan_mode(m,
      add(m, copied_keys(cls.family),
        with_first_point(m,
          with_type_grid(cls.GRID_TYPE, metric_grid(LambertAEA_get_grid(m))))))

\* The Maker classes in the order of the registration loop.
MakerClasses ==
    << [name |-> "LatLonGridSpecMaker", GRID_TYPE |-> "regular_ll", ROTATED |-> FALSE, family |-> "latlon"],
       [name |-> "ReducedLatLonGridSpecMaker", GRID_TYPE |-> "reduced_ll", ROTATED |-> FALSE, family |-> "reduced_latlon"],
       [name |-> "RotatedLatLonGridSpecMaker", GRID_TYPE |-> "rotated_ll", ROTATED |-> TRUE, family |-> "latlon"],
       [name |-> "RegularGaussianGridSpecMaker", GRID_TYPE |-> "regular_gg", ROTATED |-> FALSE, family |-> "regular_gaussian"],
       [name |-> "ReducedGaussianGridSpecMaker", GRID_TYPE |-> "reduced_gg", ROTATED |-> FALSE, family |-> "reduced_gaussian"],
       [name |-> "RegularRotatedGaussianGridSpecMaker", GRID_TYPE |-> "rotated_gg", ROTATED |-> TRUE, family |-> "regular_gaussian"],
       [name |-> "ReducedRotatedGaussianGridSpecMaker", GRID_TYPE |-> "reduced_rotated_gg", ROTATED |-> TRUE, family |-> "reduced_gaussian"],
       [name |-> "MercatorGridSpecMaker", GRID_TYPE |-> "mercator", ROTATED |-> FALSE, family |-> "mercator"],
       [name |-> "PolarStereographicGridSpecMaker", GRID_TYPE |-> "polar_stereographic", ROTATED |-> FALSE, family |-> "polar_stereographic"],
       [name |-> "LambertGridSpecMaker", GRID_TYPE |-> "lambert", ROTATED |-> FALSE, family |-> "lambert"],
       [name |-> "LambertAEAGridSpecMaker", GRID_TYPE |-> "lambert_azimuthal_equal_area", ROTATED |-> FALSE, family |-> "lambert_aea"] >>

\* The registration loop over the first n classes: grid_specs[g.GRID_TYPE] = g
RECURSIVE register(_, _)
register(classes, n) ==
    IF n = 0 THEN << >>
    ELSE LET g == classes[n]
             before == register(classes, n - 1)
         IN  [t \in (DOMAIN before) \cup {g.GRID_TYPE} |->
                 IF t = g.GRID_TYPE THEN g ELSE before[t]]

\* A registration in which RotatedLatLonGridSpecMaker inherits GRID_TYPE unchanged.
grid_specs_inherited_tag ==
    register([MakerClasses EXCEPT ![3].GRID_TYPE = "regular_ll"], Len(MakerClasses))

grid_specs == register(MakerClasses, Len(MakerClasses))

\* maker(metadata).make()
make(m, cls) ==
    CASE cls.family = "latlon" -> LatLon_make(m, cls)
      [] cls.family = "reduced_latlon" -> ReducedLatLon_make(m, cls)
      [] cls.family \in {"regular_gaussian", "reduced_gaussian"} -> Gaussian_make(m, cls)
      [] cls.family = "mercator" -> Mercator_make(m, cls)
      [] cls.family = "polar_stereographic" -> PolarStereographic_make(m, cls)
      [] cls.family = "lambert" -> Lambert_make(m, cls)
      [] cls.family = "lambert_aea" -> LambertAEA_make(m, cls)

\* make_gridspec: status "ok" with the GridSpec, the dispatch's TypeError with
\* the tag, or the exception make() raised.
make_gridspec(m) ==
    LET grid_type == MdGet(m, "gridType") IN
    IF grid_type # None /\ grid_type[1] \in DOMAIN grid_specs
    THEN LET r == make(m, grid_specs[grid_type[1]]) IN
         IF r.err = "ok"
         THEN [status |-> "ok", what |-> "GridSpec", d |-> r.v, tag |-> grid_type]
         ELSE [status |-> r.err, what |-> "make", d |-> r.v, tag |-> grid_type]
    ELSE [status |-> "TypeError", what |-> "unsupported grid_type", d |-> <<>>, tag |-> grid_type]

---------------------------------------------------------------------------
(* The metadata views the Makers are applied to *)

RegisteredTags == {MakerClasses[i].GRID_TYPE : i \in DOMAIN MakerClasses}

\* gridType as a view may hold it: a registered tag, the spectral type "sh"
\* (no Maker), or absent.
GridTypeOpts == {None} \cup {Some(t) : t \in RegisteredTags \cup {"sh"}}

CountOpts == {None, Some(MISSING)} \cup {Some(c) : c \in 1..MaxCount}

IncOpts == {None, Some(2), Some(-5)}

FlagOpts == {None, Some(0), Some(1)}

NoKeys == [k \in MdKeys |-> None]

\* The view f with the keys of g set as in g.
With(f, g) == [k \in MdKeys |-> IF k \in DOMAIN g THEN g[k] ELSE f[k]]

\* Corner coordinates 0/10 (longitude) and 0/-10 (latitude), i scanning positive.
Corners ==
    [ longitudeOfFirstGridPointInDegrees |-> Some(0),
      longitudeOfLastGridPointInDegrees |-> Some(10),
      latitudeOfFirstGridPointInDegrees |-> Some(0),
      latitudeOfLastGridPointInDegrees |-> Some(-10),
      iScansNegatively |-> Some(0) ]

\* Keys every family needs for make() to succeed, on top of Corners.
FamilyKeys ==
    [ Ni |-> Some(2), Nj |-> Some(2), N |-> Some(32),
      DiInMetres |-> Some(2000), DjInMetres |-> Some(-3000),
      DxInMetres |-> Some(-4000), DyInMetres |-> Some(5000) ]

\* Lat-lon families: every combination of explicit increments and point counts.
IncrementViews ==
    { With(With(NoKeys, Corners),
           [ gridType |-> Some(t),
             iDirectionIncrementInDegrees |-> di, jDirectionIncrementInDegrees |-> dj,
             numberOfPointsAlongAParallel |-> np, Ni |-> ni,
             numberOfPointsAlongAMeridian |-> nm, Nj |-> nj ]) :
        t \in {"regular_ll", "rotated_ll", "reduced_ll"},
        di \in IncOpts, dj \in IncOpts,
        np \in CountOpts, ni \in CountOpts, nm \in CountOpts, nj \in CountOpts }

LonPairs == {<<Some(0), Some(10)>>, <<Some(10), Some(0)>>, <<Some(0), None>>, <<None, Some(10)>>}

LatPairs == {<<Some(0), Some(-10)>>, <<Some(-10), Some(0)>>, <<Some(0), None>>, <<None, Some(0)>>}

\* Every grid type: scan flags and corner coordinates.
ScanViews ==
    { With(With(NoKeys, FamilyKeys),
           [ gridType |-> gt, iScansNegatively |-> sn, iScansPositively |-> sp,
             longitudeOfFirstGridPointInDegrees |-> lon[1],
             longitudeOfLastGridPointInDegrees |-> lon[2],
             latitudeOfFirstGridPointInDegrees |-> lat[1],
             latitudeOfLastGridPointInDegrees |-> lat[2] ]) :
        gt \in GridTypeOpts, sn \in FlagOpts, sp \in FlagOpts,
        lon \in LonPairs, lat \in LatPairs }

RotationOpts == {<<None, None>>, <<Some(-30), Some(20)>>, <<Some(-30), None>>}

\* Every grid type: rotation keys, j scan flags, the Gaussian flags and number.
FlagViews ==
    { With(With(With(NoKeys, Corners), FamilyKeys),
           [ gridType |-> gt,
             latitudeOfSouthernPoleInDegrees |-> rot[1],
             longitudeOfSouthernPoleInDegrees |-> rot[2],
             angleOfRotationInDegrees |-> ang,
             jPointsAreConsecutive |-> jc, jScansPositively |-> jp,
             global |-> gl, isOctahedral |-> oc, N |-> n ]) :
        gt \in GridTypeOpts, rot \in RotationOpts, ang \in {None, Some(15)},
        jc \in {None, Some(0)}, jp \in {None, Some(1)},
        gl \in FlagOpts, oc \in FlagOpts, n \in {None, Some(32)} }

MetricTags == {"mercator", "polar_stereographic", "lambert", "lambert_azimuthal_equal_area"}

\* Metric families: every combination of the metric increment keys.
MetricViews ==
    { With(With(NoKeys, Corners),
           [ gridType |-> Some(t),
             DiInMetres |-> di, DjInMetres |-> dj, DxInMetres |-> dx, DyInMetres |-> dy,
             xDirectionGridLengthInMetres |-> xl, yDirectionGridLengthInMetres |-> yl ]) :
        t \in MetricTags,
        di \in {None, Some(2000)}, dj \in {None, Some(-3000)},
        dx \in {None, Some(-4000)}, dy \in {None, Some(5000)},
        xl \in {None, Some(6000)}, yl \in {None, Some(7000)} }

\* Metric families: every combination of the projection keys the makers copy.
ProjectionViews ==
    { With(With(With(NoKeys, Corners), FamilyKeys),
           [ gridType |-> Some(t), Nx |-> nxy, Ny |-> nxy,
             LaDInDegrees |-> lad, LoVInDegrees |-> lov,
             orientationOfTheGridInDegrees |-> ori,
             LatIn1InDegrees |-> latin, LatIn2InDegrees |-> latin,
             Latin1InDegrees |-> secant, Latin2InDegrees |-> secant,
             standardParallelInDegrees |-> sp, centralLongitudeInDegrees |-> cl,
             xDirectionGridLengthInMetres |-> Some(6000),
             yDirectionGridLengthInMetres |-> Some(7000) ]) :
        t \in MetricTags, nxy \in {None, Some(3)},
        lad \in {None, Some(60)}, lov \in {None, Some(10)}, ori \in {None, Some(5)},
        latin \in {None, Some(30)}, secant \in {None, Some(30)},
        sp \in {None, Some(50)}, cl \in {None, Some(9)} }

MdInputs == IncrementViews \cup ScanViews \cup FlagViews \cup MetricViews \cup ProjectionViews

---------------------------------------------------------------------------
(* Values of the variables a specification does not use *)

NoGridSpec == [status |-> "none", what |-> "", d |-> <<>>, tag |-> None]

NoLast == [op |-> "none"]

NoVersion == <<0, 0, 0>>

NoCallers == <<>>

NoSettings == <<>>

---------------------------------------------------------------------------
(* SpecGrid: make_gridspec applied to a metadata view *)

InitGrid ==
    /\ md \in MdInputs
    /\ gs = NoGridSpec
    /\ handles = <<>>
    /\ facades = <<>>
    /\ last = NoLast
    /\ eccVersion = NoVersion
    /\ geo = "none"
    /\ coordReads = 0
    /\ shp = None
    /\ callers = NoCallers
    /\ serialized = FALSE
    /\ SETTINGS = NoSettings /\ yamlFile = NoSettings /\ entered = NoSettings

\* gridspec = make_gridspec(metadata)
MakeGridspec ==
    /\ gs.status = "none"
    /\ gs' = make_gridspec(md)
    /\ UNCHANGED <<md, handles, facades, last, eccVersion, geo, coordReads, shp, callers, serialized, SETTINGS, yamlFile, entered>>

NextGrid == MakeGridspec

SpecGrid == InitGrid /\ [][NextGrid]_vars

---------------------------------------------------------------------------
(* readers/grib/metadata.py: GribFieldGeography *)

\* GribFieldGeography.shape: (Nj, Ni), or (numberOfDataPoints,) when one is missing
shape(m) ==
    LET Nj == missing_is_none(MdGet(m, "Nj"))
        Ni == missing_is_none(MdGet(m, "Ni"))
    IN  IF Ni = None \/ Nj = None
        THEN <<MdGet(m, "numberOfDataPoints")>>
        ELSE <<Nj[1], Ni[1]>>

\* The grid types of the model whose tag contains the substring "rotated".
TagsContainingRotated == {"rotated_ll", "rotated_gg", "reduced_rotated_gg"}

\* GribFieldGeography.rotated: "rotated" in grid_type, a TypeError when
\* metadata.get("gridType") is None.
rotated(m) ==
    IF MdGet(m, "gridType") = None
    THEN Err("TypeError", "argument of type NoneType is not iterable")
    ELSE Ok(MdGet(m, "gridType")[1] \in TagsContainingRotated)

\* Python's a >= b on tuples of three integers.
TupleGE(a, b) ==
    \/ a[1] > b[1]
    \/ a[1] = b[1] /\ a[2] > b[2]
    \/ a[1] = b[1] /\ a[2] = b[2] /\ a[3] >= b[3]

\* The ecCodes version check_rotated_support asks for.
MinRotatedReducedVersion == <<2, 35, 0>>

\* A guard that compares the minor version number alone.
check_rotated_support_minor_only(m, version) ==
    LET r == rotated(m) IN
    IF r.err # "ok" THEN r
    ELSE IF r.v /\ MdGet(m, "gridType") = Some("reduced_rotated_gg")
              /\ ~(version[2] >= MinRotatedReducedVersion[2])
         THEN Err("RuntimeError", "gridType=rotated_reduced_gg requires ecCodes >= 2.35.0")
         ELSE Ok(TRUE)

\* GribFieldGeography.check_rotated_support
check_rotated_support(m, version) ==
    LET r == rotated(m) IN
    IF r.err # "ok" THEN r
    ELSE IF r.v /\ MdGet(m, "gridType") = Some("reduced_rotated_gg")
              /\ ~TupleGE(version, MinRotatedReducedVersion)
         THEN Err("RuntimeError", "gridType=rotated_reduced_gg requires ecCodes >= 2.35.0")
         ELSE Ok(TRUE)

---------------------------------------------------------------------------
(* SpecGeo: a Geography accessor over a metadata view *)

Versions == {<<1, 40, 0>>, <<2, 34, 0>>, <<2, 34, 9>>, <<2, 35, 0>>, <<2, 36, 1>>, <<3, 0, 0>>}

GeoViews ==
    { With(With(NoKeys, Corners),
           [ gridType |-> gt, Ni |-> ni, Nj |-> nj, numberOfDataPoints |-> n ]) :
        gt \in GridTypeOpts, ni \in CountOpts, nj \in CountOpts, n \in {None, Some(6)} }

InitGeo ==
    /\ md \in GeoViews
    /\ eccVersion \in Versions
    /\ geo = "none"
    /\ coordReads = 0
    /\ shp = None
    /\ callers = NoCallers
    /\ serialized = FALSE
    /\ SETTINGS = NoSettings /\ yamlFile = NoSettings /\ entered = NoSettings
    /\ gs = NoGridSpec
    /\ handles = <<>>
    /\ facades = <<>>
    /\ last = NoLast

\* GribMetadata.geography -> GribFieldGeography.__init__: the accessor exists
\* (geo = "ok") only when check_rotated_support raised nothing.
GeographyInit ==
    /\ geo = "none"
    /\ geo' = check_rotated_support(md, eccVersion).err
    /\ UNCHANGED <<md, gs, handles, facades, last, eccVersion, coordReads, shp, callers, serialized, SETTINGS, yamlFile, entered>>

\* GribFieldGeography.latitudes: one coordinate read of the handle
Latitudes ==
    /\ geo = "ok"
    /\ coordReads < MaxReads
    /\ coordReads' = coordReads + 1
    /\ UNCHANGED <<md, gs, handles, facades, last, eccVersion, geo, shp, callers, serialized, SETTINGS, yamlFile, entered>>

\* GribFieldGeography.longitudes: one coordinate read of the handle
Longitudes ==
    /\ geo = "ok"
    /\ coordReads < MaxReads
    /\ coordReads' = coordReads + 1
    /\ UNCHANGED <<md, gs, handles, facades, last, eccVersion, geo, shp, callers, serialized, SETTINGS, yamlFile, entered>>

\* GribFieldGeography.shape
Shape ==
    /\ geo = "ok"
    /\ shp = None
    /\ shp' = Some(shape(md))
    /\ UNCHANGED <<md, gs, handles, facades, last, eccVersion, geo, coordReads, callers, serialized, SETTINGS, yamlFile, entered>>

NextGeo == GeographyInit \/ Latitudes \/ Longitudes \/ Shape

SpecGeo == InitGeo /\ [][NextGeo]_vars

---------------------------------------------------------------------------
(* Claims about make_gridspec and the Makers (SpecGrid) *)

Made == gs.status # "none"

GridTypeOf(m) == MdGet(m, "gridType")

\* The 11 grid-type tags the registry is documented to hold.
ElevenTags ==
    { "regular_ll", "reduced_ll", "rotated_ll",
      "regular_gg", "reduced_gg", "rotated_gg", "reduced_rotated_gg",
      "mercator", "polar_stereographic", "lambert", "lambert_azimuthal_equal_area" }

\* C1: make_gridspec on a gridType that is not one of the 11 registered tags
\* (an absent gridType included) raises the unsupported-grid-type TypeError
\* carrying the tag, and returns neither a GridSpec nor None; each of the 11
\* tags is registered to exactly one Maker class, the one declaring that tag,
\* and a registered tag never gets the unsupported-grid-type error.
C1_DispatchTotality ==
    /\ DOMAIN grid_specs = ElevenTags
    /\ Cardinality(DOMAIN grid_specs) = 11
    /\ \A t \in ElevenTags :
          /\ Cardinality({i \in DOMAIN MakerClasses : MakerClasses[i].GRID_TYPE = t}) = 1
          /\ grid_specs[t].GRID_TYPE = t
    /\ Made =>
          IF GridTypeOf(md) = None \/ GridTypeOf(md)[1] \notin ElevenTags
          THEN /\ gs.status = "TypeError"
               /\ gs.what = "unsupported grid_type"
               /\ gs.tag = GridTypeOf(md)
          ELSE gs.what # "unsupported grid_type"

\* C1 witness: make_gridspec has raised the unsupported-grid-type error for a
\* view without gridType.
C1_Witness ==
    /\ GridTypeOf(md) = None
    /\ gs.status = "TypeError"
    /\ gs.what = "unsupported grid_type"

\* The regular_ll view of the scenario: exactly these keys, all others absent.
ScenarioView ==
    With(NoKeys,
         [ gridType |-> Some("regular_ll"), Ni |-> Some(2), Nj |-> Some(2),
           longitudeOfFirstGridPointInDegrees |-> Some(0),
           longitudeOfLastGridPointInDegrees |-> Some(10),
           latitudeOfFirstGridPointInDegrees |-> Some(0),
           latitudeOfLastGridPointInDegrees |-> Some(-10),
           iScansNegatively |-> Some(0) ])

\* C2 as stated: for the scenario view make_gridspec returns exactly
\* {type: "regular_ll", grid: [10.0, 10.0], area: [0, 0, -10, 10]}.
C2_Original ==
    (Made /\ md = ScenarioView) =>
        /\ gs.status = "ok"
        /\ gs.d = [ type |-> "regular_ll",
                    grid |-> <<Rat(10, 1), Rat(10, 1)>>,
                    area |-> <<Some(0), Some(0), Some(-10), Some(10)>> ]

\* C2 amended: for the scenario view make_gridspec returns the GridSpec with
\* type "regular_ll", grid [10.0, 10.0], area [0, 0, -10, 10] and, copied by
\* _add_scan_mode from iScansNegatively=0, i_scans_negatively 0: these four
\* entries and no other.
C2_ScenarioGridSpec ==
    (Made /\ md = ScenarioView) =>
        /\ gs.status = "ok"
        /\ gs.d = [ type |-> "regular_ll",
                    grid |-> <<Rat(10, 1), Rat(10, 1)>>,
                    area |-> <<Some(0), Some(0), Some(-10), Some(10)>>,
                    i_scans_negatively |-> 0 ]

\* C2 witness: make_gridspec has returned a GridSpec for the scenario view.
C2_Witness == md = ScenarioView /\ gs.status = "ok"

\* The families that go through the base class's west()/east().
ScanTags == {"regular_ll", "rotated_ll", "reduced_ll", "mercator"}

\* C6: the i-direction scan sign.  From iScansNegatively the sign is positive
\* iff the key is 0; from iScansPositively it is positive iff the key is 1.
\* With both keys present and the two derivations agreeing the result is that
\* sign; with one key present the result is its derivation; with neither a
\* ValueError is raised, and a make() of a family that takes west/east from
\* the scan sign fails with it once the latitudes are there.
C6_ScanDirection ==
    LET n == MdGet(md, "iScansNegatively")
        p == MdGet(md, "iScansPositively")
        fromNeg == IF n[1] = 0 THEN 1 ELSE -1
        fromPos == IF p[1] = 1 THEN 1 ELSE -1
    IN  Made =>
          /\ (n # None /\ p # None /\ fromNeg = fromPos) => x_scan_dir(md) = Ok(fromNeg)
          /\ (n # None /\ p = None) => x_scan_dir(md) = Ok(fromNeg)
          /\ (n = None /\ p # None) => x_scan_dir(md) = Ok(fromPos)
          /\ (n = None /\ p = None) =>
                /\ x_scan_dir(md).err = "ValueError"
                /\ (/\ GridTypeOf(md) # None
                    /\ GridTypeOf(md)[1] \in ScanTags
                    /\ first_lat(md) # None /\ last_lat(md) # None
                    /\ gs.status \notin {"TypeError", "ZeroDivisionError"})
                   => gs.status = "ValueError"
          /\ (/\ gs.status = "ok"
              /\ GridTypeOf(md)[1] \in ScanTags
              /\ n = None /\ p # None)
             => gs.d["area"][2] = (IF fromPos = 1 THEN first_lon(md) ELSE last_lon(md))

\* C6 witness: a GridSpec was made for a view holding iScansPositively=0 only,
\* so that west is the last longitude.
C6_Witness ==
    /\ gs.status = "ok"
    /\ GridTypeOf(md) = Some("regular_ll")
    /\ MdGet(md, "iScansNegatively") = None
    /\ MdGet(md, "iScansPositively") = Some(0)
    /\ gs.d["area"][2] = last_lon(md)
    /\ first_lon(md) # last_lon(md)

LatLonTags == {"regular_ll", "rotated_ll", "reduced_ll"}

IsLatLon(m) == GridTypeOf(m) # None /\ GridTypeOf(m)[1] \in LatLonTags

\* The point count the Maker reads for an axis: the first key that is present.
FirstPresent(m, keys) ==
    LET c == get_first_valid(m, keys, "") IN IF c.err = "ok" THEN Some(c.v) ELSE None

XCount(m) == FirstPresent(m, <<"numberOfPointsAlongAParallel", "Ni">>)

YCount(m) == FirstPresent(m, <<"numberOfPointsAlongAMeridian", "Nj">>)

\* The increments a lat-lon GridSpec d reports: grid is [dx, dy], and dy alone
\* for reduced_ll.
XGrid(d) == d["grid"][1]

YGrid(d) == IF d["type"] = "reduced_ll" THEN d["grid"] ELSE d["grid"][2]

\* C7 as stated: for regular_ll, rotated_ll and reduced_ll a single-point axis
\* reports increment 1.0 whether or not the explicit increment keys are
\* present, and the derivation never divides by zero.
C7_Original ==
    (Made /\ IsLatLon(md)) =>
        /\ gs.status # "ZeroDivisionError"
        /\ gs.status = "ok" =>
              /\ (gs.d["type"] # "reduced_ll" /\ XCount(md) = Some(1))
                    => XGrid(gs.d) = Rat(1, 1)
              /\ YCount(md) = Some(1) => YGrid(gs.d) = Rat(1, 1)

\* C7 amended: for regular_ll, rotated_ll and reduced_ll the derivation never
\* divides by zero, for every combination of present/absent increment keys;
\* an axis whose explicit increment key is absent and whose point count (the
\* first present point-count key) is 1 reports 1.0; an axis whose explicit
\* increment key is present reports the magnitude of that key, whatever the
\* point count.  reduced_ll reports the latitude axis only.
C7_SinglePointAxis ==
    (Made /\ IsLatLon(md)) =>
        LET di == MdGet(md, "iDirectionIncrementInDegrees")
            dj == MdGet(md, "jDirectionIncrementInDegrees")
        IN
        /\ gs.status # "ZeroDivisionError"
        /\ gs.status = "ok" =>
              /\ (gs.d["type"] # "reduced_ll" /\ di = None /\ XCount(md) = Some(1))
                    => XGrid(gs.d) = Rat(1, 1)
              /\ (dj = None /\ YCount(md) = Some(1)) => YGrid(gs.d) = Rat(1, 1)
              /\ (gs.d["type"] # "reduced_ll" /\ di # None)
                    => XGrid(gs.d) = Rat(IntAbs(di[1]), 1)
              /\ dj # None => YGrid(gs.d) = Rat(IntAbs(dj[1]), 1)
              /\ gs.d["type"] = "reduced_ll" => gs.d["grid"] \in [n : Int, d : Int]

\* C7 witness: a GridSpec made from a regular_ll view without explicit
\* increment keys, one point along each axis, reporting [1.0, 1.0].
C7_Witness ==
    /\ gs.status = "ok"
    /\ GridTypeOf(md) = Some("regular_ll")
    /\ MdGet(md, "iDirectionIncrementInDegrees") = None
    /\ MdGet(md, "jDirectionIncrementInDegrees") = None
    /\ XCount(md) = Some(1) /\ YCount(md) = Some(1)
    /\ gs.d["grid"] = <<Rat(1, 1), Rat(1, 1)>>

PointCountKeys == {"numberOfPointsAlongAParallel", "Ni", "numberOfPointsAlongAMeridian", "Nj"}

\* The view m with every point-count key that holds the sentinel made absent.
Scrub(m) == [k \in MdKeys |-> IF k \in PointCountKeys THEN missing_is_none(m[k]) ELSE m[k]]

\* The shape half of C8: shape() never reports the sentinel as Nj or Ni, and a
\* sentinel in Ni or Nj gives the same shape as the key being absent.
C8_ShapePart ==
    /\ Len(shape(md)) = 2 => shape(md)[1] # MISSING /\ shape(md)[2] # MISSING
    /\ shape(md) = shape(Scrub(md))

\* C8 as stated: a point-count key holding the sentinel 2147483647 is treated
\* as absent in Geography.shape and in the Makers' point-count reads: the
\* GridSpec of a lat-lon view is the one made with the sentinel keys absent.
C8_SentinelIsAbsent ==
    /\ C8_ShapePart
    /\ (Made /\ IsLatLon(md)) =>
          LET r == make_gridspec(Scrub(md)) IN
          /\ gs.status = r.status
          /\ gs.status = "ok" => gs.d = r.d

---------------------------------------------------------------------------
(* Claims about the Geography accessor (SpecGeo) *)

\* The library version is below 2.35.0.
Below_2_35_0 == eccVersion[1] < 2 \/ (eccVersion[1] = 2 /\ eccVersion[2] < 35)

\* C9: with gridType reduced_rotated_gg and a library version below 2.35.0 the
\* construction of the accessor raises the feature-unsupported RuntimeError, so
\* no accessor exists and no coordinate (or shape) read was made through it;
\* with any other grid type, or a version at or above 2.35.0, the guard raises
\* nothing and the accessor is constructed.  Coordinate reads happen only
\* through a constructed accessor.
C9_RotatedGuard ==
    /\ (geo # "none" /\ GridTypeOf(md) = Some("reduced_rotated_gg") /\ Below_2_35_0)
          => (geo = "RuntimeError" /\ coordReads = 0 /\ shp = None)
    /\ (/\ geo # "none"
        /\ GridTypeOf(md) # None
        /\ (GridTypeOf(md) # Some("reduced_rotated_gg") \/ ~Below_2_35_0))
          => geo = "ok"
    /\ (coordReads > 0 \/ shp # None) => geo = "ok"

\* C9 witness: the construction was refused for reduced_rotated_gg under
\* version 2.34.9.
C9_Witness ==
    /\ geo = "RuntimeError"
    /\ GridTypeOf(md) = Some("reduced_rotated_gg")
    /\ eccVersion = <<2, 34, 9>>

---------------------------------------------------------------------------
(* The ecCodes handle (GribCodesHandle), as the facades use it *)

\* A key value of a handle: a long or a string.
IntV(i) == [t |-> "int", i |-> i, s |-> ""]

StrV(s) == [t |-> "str", i |-> 0, s |-> s]

\* The date, time and step keys the datetime accessors of GribMetadata read.
TimeKeys ==
    {"dataDate", "dataTime", "validityDate", "validityTime", "referenceDate", "referenceTime",
     "indexingDate", "indexingTime", "step"}

\* The keys a handle of the model may hold.
HKeys ==
    {"edition", "bitsPerValue", "shortName", "paramId", "level", "Ni", "average", "max"}
    \cup TimeKeys

\* handle.get(key, default=default): the value as an option.  A key is its
\* text split at the dots, "grib.average" being <<"grib", "average">> and
\* "average" being <<"average">>.
Handle_get(h, key, default) ==
    IF Len(key) = 1 /\ key[1] \in HKeys /\ h.keys[key[1]] # None
    THEN h.keys[key[1]]
    ELSE default

\* handle.get(key, ktype=str, default=default)
Handle_get_str(h, key, default) ==
    LET v == Handle_get(h, key, None) IN
    IF v = None THEN default
    ELSE IF v[1].t = "int" THEN Some(StrV(ToString(v[1].i))) ELSE v

\* handle.clone(headers_only): a new handle with the same keys.  A headers-only
\* clone drops the data section: its values are a constant field and its
\* bitsPerValue is 0.
Handle_clone(h, headers_only) ==
    IF headers_only
    THEN [ keys |-> [k \in HKeys |->
                        IF k = "bitsPerValue" /\ h.keys[k] # None THEN Some(IntV(0)) ELSE h.keys[k]],
           values |-> [i \in 1..Len(h.values) |-> 0],
           log |-> <<"clone_headers_only">> ]
    ELSE [ keys |-> h.keys, values |-> h.values, log |-> <<"clone">> ]

\* handle.set_long(key, value)
Handle_set_long(h, key, v) ==
    [h EXCEPT !.keys[key] = Some(v), !.log = Append(@, "set_long")]

\* handle.set_multiple(d)
Handle_set_multiple(h, d) ==
    [h EXCEPT !.keys = [k \in HKeys |-> IF k \in DOMAIN d THEN Some(d[k]) ELSE @[k]],
              !.log = Append(@, "set_multiple")]

\* handle.set_values(vals)
Handle_set_values(h, vals) ==
    [h EXCEPT !.values = vals, !.log = Append(@, "set_values")]

\* The keys of each ecCodes namespace among HKeys; None is the namespace of
\* all keys.
NsMembers(ns) ==
    IF ns = None THEN HKeys
    ELSE CASE ns[1] = "ls" -> {"shortName", "level", "edition"}
           [] ns[1] = "parameter" -> {"shortName", "paramId"}
           [] ns[1] = "statistics" -> {"max", "average"}
           [] ns[1] = "geography" -> {"Ni", "bitsPerValue"}
           [] ns[1] = "mars" -> {"level", "max"}
           [] ns[1] = "vertical" -> {"level"}
           [] ns[1] = "time" -> {"dataDate", "dataTime", "step", "validityDate", "validityTime"}
           [] OTHER -> {}

\* handle.as_namespace(ns): the dict of the namespace's keys the handle holds
Handle_as_namespace(h, ns) ==
    [k \in {x \in NsMembers(ns) : h.keys[x] # None} |-> h.keys[k][1]]

---------------------------------------------------------------------------
(* readers/grib/metadata.py: GribMetadata *)

NAMESPACES == <<"default", "ls", "geography", "mars", "parameter", "statistics", "time", "vertical">>

\* A _key_name without the two aliases
key_name_plain(key) == key

\* _key_name inside GribMetadata._get
key_name(key) ==
    IF key = <<"param">> THEN <<"shortName">>
    ELSE IF key = <<"_param_id">> THEN <<"paramId">>
    ELSE key

\* GribMetadata._get with raise_on_missing=False and no astype
GribMetadata_get(h, key, default) ==
    LET k == key_name(key)
        v == Handle_get(h, k, default)
    IN  IF k = <<"shortName">> /\ v = Some(StrV("~"))
        THEN Handle_get_str(h, <<"paramId">>, default)
        ELSE v

\* GribMetadata._copy_key with the roles of the two handles exchanged
copy_key_into_source(hs, src, tgt, key) ==
    LET v_ori == Handle_get(hs[src], <<key>>, None)
        v_new == Handle_get(hs[tgt], <<key>>, None)
    IN  IF v_ori # None /\ v_new # None /\ v_ori # v_new
        THEN [hs EXCEPT ![src] = Handle_set_long(@, key, v_new[1])]
        ELSE hs

\* GribMetadata._copy_key that sets the key whenever both handles hold it
copy_key_unconditional(hs, src, tgt, key) ==
    LET v_ori == Handle_get(hs[src], <<key>>, None)
        v_new == Handle_get(hs[tgt], <<key>>, None)
    IN  IF v_ori # None /\ v_new # None
        THEN [hs EXCEPT ![tgt] = Handle_set_long(@, key, v_ori[1])]
        ELSE hs

\* GribMetadata._copy_key: in the store hs, from the facade's handle src to
\* the target handle tgt
copy_key(hs, src, tgt, key) ==
    LET v_ori == Handle_get(hs[src], <<key>>, None)
        v_new == Handle_get(hs[tgt], <<key>>, None)
    IN  IF v_ori # None /\ v_new # None /\ v_ori # v_new
        THEN [hs EXCEPT ![tgt] = Handle_set_long(@, key, v_ori[1])]
        ELSE hs

\* np.zeros(n)
zeros(n) == [i \in 1..n |-> 0]

\* A pop that leaves the gridspec entry in d
pop_gridspec_kept(kwargs) ==
    [ d |-> kwargs,
      gridspec |-> IF "gridspec" \in DOMAIN kwargs THEN kwargs["gridspec"] ELSE None ]

\* d = dict(*args, **kwargs); gridspec = d.pop("gridspec", None)
pop_gridspec(kwargs) ==
    [ d |-> [k \in DOMAIN kwargs \ {"gridspec"} |-> kwargs[k]],
      gridspec |-> IF "gridspec" \in DOMAIN kwargs THEN kwargs["gridspec"] ELSE None ]

\* edition = d.get("edition", self["edition"]), the edition handed to
\* GridSpecConverter.to_metadata
conversion_edition(h, d) ==
    IF "edition" \in DOMAIN d THEN d["edition"]
    ELSE GribMetadata_get(h, <<"edition">>, None)[1]

\* A d.update(md) in which the caller's keys win
merged_patch_caller_wins(d, gridspec, conv) ==
    IF gridspec # None THEN d @@ conv.md ELSE d

\* d.update(md) when there is a gridspec: the keys of the conversion replace
\* the caller's keys of the same name.
merged_patch(d, gridspec, conv) ==
    IF gridspec # None THEN conv.md @@ d ELSE d

\* GribMetadata.override that resizes the buffer for any count that is given
override_resize_any(hs, src, patch, gridspec, conv, headers_only_clone) ==
    LET d == merged_patch(patch, gridspec, conv)
        new_value_size == IF gridspec # None THEN conv.size ELSE None
        h1 == Append(hs, Handle_clone(hs[src], headers_only_clone))
        tgt == Len(h1)
        h2 == IF "bitsPerValue" \notin DOMAIN d THEN copy_key(h1, src, tgt, "bitsPerValue") ELSE h1
        h3 == IF DOMAIN d # {} THEN [h2 EXCEPT ![tgt] = Handle_set_multiple(@, d)] ELSE h2
    IN  IF new_value_size # None
        THEN [h3 EXCEPT ![tgt] = Handle_set_values(@, zeros(IntMax(new_value_size[1], 0)))]
        ELSE h3

\* GribMetadata.override on the facade whose handle is hs[src]: the store with
\* the clone appended.  patch is the dict of the call without its gridspec
\* entry, gridspec the popped entry, conv the (md, new_value_size) that
\* GridSpecConverter.to_metadata returns for it.
override(hs, src, patch, gridspec, conv, headers_only_clone) ==
    LET d == merged_patch(patch, gridspec, conv)
        new_value_size == IF gridspec # None THEN conv.size ELSE None
        h1 == Append(hs, Handle_clone(hs[src], headers_only_clone))
        tgt == Len(h1)
        h2 == IF "bitsPerValue" \notin DOMAIN d THEN copy_key(h1, src, tgt, "bitsPerValue") ELSE h1
        h3 == IF DOMAIN d # {} THEN [h2 EXCEPT ![tgt] = Handle_set_multiple(@, d)] ELSE h2
    IN  IF new_value_size # None /\ new_value_size[1] > 0
        THEN [h3 EXCEPT ![tgt] = Handle_set_values(@, zeros(new_value_size[1]))]
        ELSE h3

\* GribMetadata.as_namespace
GribMetadata_as_namespace(h, namespace) ==
    Handle_as_namespace(h, IF namespace = Some("default") \/ namespace = Some("") THEN None
                           ELSE namespace)

---------------------------------------------------------------------------
(* readers/grib/metadata.py: RestrictedGribMetadata *)

EKD_NAMESPACE == "grib"

INTERNAL_KEYS ==
    { "minimum", "maximum", "average", "standardDeviation", "skewness", "kurtosis",
      "min", "max", "avg", "sd", "skew", "kurt", "const", "isConstant",
      "numberOfMissing", "numberOfCodedValues", "bitmapPresent", "offsetValuesBy",
      "packingError", "referenceValue", "referenceValueError", "unpackedError",
      "values", "latLonValues" }

INTERNAL_NAMESPACES == {"statistics"}

\* ns, _, name = key.partition("."); if name == "": name = key; ns = ""
KeyNs(key) == IF Len(key) >= 2 /\ Tail(key) # <<"">> THEN key[1] ELSE ""

KeyName(key) == IF Len(key) >= 2 /\ Tail(key) # <<"">> THEN Tail(key) ELSE key

\* RestrictedGribMetadata._is_hidden, hidden being INTERNAL_KEYS
is_hidden(key) ==
    IF KeyNs(key) = EKD_NAMESPACE THEN FALSE
    ELSE Len(KeyName(key)) = 1 /\ KeyName(key)[1] \in INTERNAL_KEYS

\* WrappedMetadata.get on a view of the facade with handle h: a hidden key
\* behaves as absent, any other key is looked up in the wrapped facade.
WrappedMetadata_get(h, key, default) ==
    IF is_hidden(key) THEN default ELSE GribMetadata_get(h, key, default)

\* RestrictedGribMetadata.get
Restricted_get(h, key, default) ==
    WrappedMetadata_get(h, IF KeyNs(key) = EKD_NAMESPACE THEN KeyName(key) ELSE key, default)

\* RestrictedGribMetadata.namespaces that returns the wrapped facade's list
Restricted_namespaces_unfiltered == NAMESPACES

\* RestrictedGribMetadata.namespaces
Restricted_namespaces == SelectSeq(NAMESPACES, LAMBDA x : x \notin INTERNAL_NAMESPACES)

\* RestrictedGribMetadata.as_namespace
Restricted_as_namespace(h, namespace) ==
    IF namespace # None /\ namespace[1] \in INTERNAL_NAMESPACES THEN << >>
    ELSE LET r == GribMetadata_as_namespace(h, namespace) IN
         [k \in {x \in DOMAIN r : x \notin INTERNAL_KEYS} |-> r[k]]

---------------------------------------------------------------------------
(* Facades *)

\* facades[f] is [kind, h, wraps]: a GribFieldMetadata ("field") borrowing
\* handle h, a StandAloneGribMetadata ("standalone") owning handle h, or a
\* RestrictedGribMetadata ("restricted") wrapping the standalone facade wraps.
FieldFacade(h) == [kind |-> "field", h |-> h, wraps |-> 0]

StandAlone(h) == [kind |-> "standalone", h |-> h, wraps |-> 0]

Restricted(fs, f) == [kind |-> "restricted", h |-> fs[f].h, wraps |-> f]

\* metadata.get(key, default) through facade f
Facade_get(hs, fs, f, key, default) ==
    IF fs[f].kind = "restricted"
    THEN Restricted_get(hs[fs[f].h], key, default)
    ELSE GribMetadata_get(hs[fs[f].h], key, default)

Facade_as_namespace(hs, fs, f, namespace) ==
    IF fs[f].kind = "restricted"
    THEN Restricted_as_namespace(hs[fs[f].h], namespace)
    ELSE GribMetadata_as_namespace(hs[fs[f].h], namespace)

Facade_namespaces(fs, f) ==
    IF fs[f].kind = "restricted" THEN Restricted_namespaces ELSE NAMESPACES

---------------------------------------------------------------------------
(* SpecMeta: override and _hide_internal_keys on the facades of one field *)

\* Largest number of facades alive in SpecMeta and SpecView.
MaxFacades == 6

\* The handle of a decoded GRIB message: three values, 16 bits per value, no
\* date, time or step key.
MessageKeys ==
    [k \in HKeys |->
        CASE k = "edition" -> Some(IntV(2))
          [] k = "bitsPerValue" -> Some(IntV(16))
          [] k = "shortName" -> Some(StrV("2t"))
          [] k = "paramId" -> Some(IntV(167))
          [] k = "level" -> Some(IntV(500))
          [] k = "Ni" -> Some(IntV(3))
          [] k = "average" -> Some(IntV(7))
          [] k = "max" -> Some(IntV(9))
          [] OTHER -> None]

MessageHandles == { [keys |-> MessageKeys, values |-> <<5, 7, 9>>, log |-> <<>>] }

\* The raw-key patches of an override call.
Patches ==
    { << >>, ("edition" :> IntV(1)) @@ ("Ni" :> IntV(4)) @@ ("bitsPerValue" :> IntV(8)) }

\* The keyword arguments of override(**patch, gridspec=gridspec)
call_kwargs(patch, gridspec) ==
    IF gridspec # None THEN ("gridspec" :> gridspec) @@ patch ELSE patch

\* The gridspec entry of an override call: absent, or a grid description.
GridspecArgs == {None, Some("O2")}

\* What GridSpecConverter.to_metadata may return: the key patch and the new
\* point count.
Conversions ==
    { [md |-> "Ni" :> IntV(2), size |-> None],
      [md |-> "Ni" :> IntV(2), size |-> Some(0)],
      [md |-> "Ni" :> IntV(2), size |-> Some(-1)],
      [md |-> "Ni" :> IntV(2), size |-> Some(2)] }

\* The conversion of a call without a gridspec entry: none is made.
NoConversion == [md |-> << >>, size |-> None]

InitMeta ==
    /\ handles \in {<<h>> : h \in MessageHandles}
    /\ facades \in {<<FieldFacade(1)>>, <<StandAlone(1), Restricted(<<StandAlone(1)>>, 1)>>}
    /\ last = NoLast
    /\ md = NoKeys
    /\ gs = NoGridSpec
    /\ eccVersion = NoVersion
    /\ geo = "none"
    /\ coordReads = 0
    /\ shp = None
    /\ callers = NoCallers
    /\ serialized = FALSE
    /\ SETTINGS = NoSettings /\ yamlFile = NoSettings /\ entered = NoSettings

\* RestrictedGribMetadata.override that returns the standalone facade unwrapped
facades_after_override_unwrapped(fs, f, newHandle) == Append(fs, StandAlone(newHandle))

\* The facades after facade f returned an override result on the new handle:
\* GribMetadata.override returns StandAloneGribMetadata(handle),
\* RestrictedGribMetadata.override wraps that in a new restricted view.
facades_after_override(fs, f, newHandle) ==
    LET r == Append(fs, StandAlone(newHandle)) IN
    IF fs[f].kind = "restricted" THEN Append(r, Restricted(r, Len(r))) ELSE r

\* r = metadata.override(patch, gridspec=..., headers_only_clone=...)
OverrideStep(f, patch, gridspec, conv, headers_only_clone) ==
    /\ f \in 1..Len(facades)
    /\ Len(handles) < MaxHandles
    /\ Len(facades) + (IF facades[f].kind = "restricted" THEN 2 ELSE 1) <= MaxFacades
    /\ LET popped == pop_gridspec(call_kwargs(patch, gridspec)) IN
       /\ handles' = override(handles, facades[f].h, popped.d, popped.gridspec, conv,
                              headers_only_clone)
       /\ facades' = facades_after_override(facades, f, Len(handles) + 1)
       /\ last' = [op |-> "override", f |-> f, patch |-> patch, gridspec |-> gridspec,
                   size |-> IF gridspec # None THEN conv.size ELSE None,
                   headers_only_clone |-> headers_only_clone, result |-> Len(facades'),
                   conv |-> IF popped.gridspec # None THEN conv ELSE NoConversion,
                   edition |-> IF popped.gridspec # None
                               THEN Some(conversion_edition(handles[facades[f].h], popped.d))
                               ELSE None,
                   d |-> merged_patch(popped.d, popped.gridspec, conv)]
    /\ UNCHANGED <<md, gs, eccVersion, geo, coordReads, shp, callers, serialized, SETTINGS, yamlFile, entered>>

Override ==
    \E f \in 1..Len(facades), patch \in Patches, gridspec \in GridspecArgs,
       conv \in Conversions, headers_only_clone \in BOOLEAN :
        OverrideStep(f, patch, gridspec, conv, headers_only_clone)

\* GribFieldMetadata._hide_internal_keys: RestrictedGribMetadata(self.override())
HideField(f) ==
    /\ facades[f].kind = "field"
    /\ Len(handles) < MaxHandles
    /\ Len(facades) + 2 <= MaxFacades
    /\ handles' = override(handles, facades[f].h, << >>, None, NoConversion, TRUE)
    /\ LET r == Append(facades, StandAlone(Len(handles) + 1)) IN
       facades' = Append(r, Restricted(r, Len(r)))
    /\ last' = [op |-> "_hide_internal_keys", f |-> f, result |-> Len(facades')]
    /\ UNCHANGED <<md, gs, eccVersion, geo, coordReads, shp, callers, serialized, SETTINGS, yamlFile, entered>>

\* StandAloneGribMetadata._hide_internal_keys: RestrictedGribMetadata(self).
\* One view is taken per standalone facade: a second view of the same facade
\* is equal to the first in every field.
HideStandAlone(f) ==
    /\ facades[f].kind = "standalone"
    /\ \A j \in 1..Len(facades) : facades[j].wraps # f
    /\ Len(facades) + 1 <= MaxFacades
    /\ facades' = Append(facades, Restricted(facades, f))
    /\ last' = [op |-> "_hide_internal_keys", f |-> f, result |-> Len(facades')]
    /\ UNCHANGED <<handles, md, gs, eccVersion, geo, coordReads, shp, callers, serialized, SETTINGS, yamlFile, entered>>

\* RestrictedGribMetadata._hide_internal_keys: return self
HideRestricted(f) ==
    /\ facades[f].kind = "restricted"
    /\ last' = [op |-> "_hide_internal_keys", f |-> f, result |-> f]
    /\ UNCHANGED <<handles, facades, md, gs, eccVersion, geo, coordReads, shp, callers, serialized, SETTINGS, yamlFile, entered>>

HideInternalKeys ==
    \E f \in 1..Len(facades) : HideField(f) \/ HideStandAlone(f) \/ HideRestricted(f)

\* _hide_internal_keys as SpecMeta calls it: on the field's facade and on
\* restricted views.  The view of a standalone facade is there from the start.
HideFieldOrView ==
    \E f \in 1..Len(facades) : HideField(f) \/ HideRestricted(f)

NextMeta == Override \/ HideFieldOrView

SpecMeta == InitMeta /\ [][NextMeta]_vars

---------------------------------------------------------------------------
(* SpecView: key and namespace reads through the facades of one handle *)

\* Handles holding or lacking a hidden key, a parameter name and a parameter id.
ViewHandles ==
    { [keys |-> [MessageKeys EXCEPT !["average"] = a, !["max"] = m, !["paramId"] = p,
                                    !["shortName"] = s],
       values |-> <<5, 7, 9>>, log |-> <<>>] :
        a \in {None, Some(IntV(7))}, m \in {None, Some(IntV(9))},
        p \in {None, Some(IntV(167))}, s \in {None, Some(StrV("2t")), Some(StrV("~"))} }

\* The keys read: plain, "grib."-qualified, qualified by another namespace,
\* unknown, and with an empty name after the dot.
ReadKeys ==
    {<<k>> : k \in {"average", "max", "level", "shortName", "param", "paramId", "_param_id",
                    "foo"}}
    \cup {<<"grib", k>> : k \in {"average", "max", "level", "foo"}}
    \cup {<<"mars", "average">>, <<"grib", "">>, <<"", "max">>}

Defaults == {None, Some(IntV(-1)), Some(StrV("~"))}

NamespaceArgs == {Some(NAMESPACES[i]) : i \in 1..Len(NAMESPACES)} \cup {Some(""), Some("foo")}

InitView ==
    /\ handles \in {<<h>> : h \in ViewHandles}
    /\ facades \in {<<FieldFacade(1)>>, <<StandAlone(1)>>}
    /\ last = NoLast
    /\ md = NoKeys
    /\ gs = NoGridSpec
    /\ eccVersion = NoVersion
    /\ geo = "none"
    /\ coordReads = 0
    /\ shp = None
    /\ callers = NoCallers
    /\ serialized = FALSE
    /\ SETTINGS = NoSettings /\ yamlFile = NoSettings /\ entered = NoSettings

\* metadata.get(key, default)
Get ==
    \E f \in 1..Len(facades), key \in ReadKeys, default \in Defaults :
        /\ last' = [op |-> "get", f |-> f, key |-> key, default |-> default,
                    result |-> Facade_get(handles, facades, f, key, default)]
        /\ UNCHANGED <<handles, facades, md, gs, eccVersion, geo, coordReads, shp, callers, serialized, SETTINGS, yamlFile, entered>>

\* metadata.as_namespace(namespace)
AsNamespace ==
    \E f \in 1..Len(facades), namespace \in NamespaceArgs :
        /\ last' = [op |-> "as_namespace", f |-> f, namespace |-> namespace,
                    result |-> Facade_as_namespace(handles, facades, f, namespace)]
        /\ UNCHANGED <<handles, facades, md, gs, eccVersion, geo, coordReads, shp, callers, serialized, SETTINGS, yamlFile, entered>>

\* metadata.namespaces()
Namespaces ==
    \E f \in 1..Len(facades) :
        /\ last' = [op |-> "namespaces", f |-> f, result |-> Facade_namespaces(facades, f)]
        /\ UNCHANGED <<handles, facades, md, gs, eccVersion, geo, coordReads, shp, callers, serialized, SETTINGS, yamlFile, entered>>

---------------------------------------------------------------------------
(* readers/grib/metadata.py: dump *)

\* The namespace argument of dump: the builtin all, None, one name, or a list
\* of names (names holds the name, or the list).
DumpAll == [kind |-> "all", names |-> <<>>]

DumpNone == [kind |-> "none", names |-> <<>>]

DumpStr(s) == [kind |-> "str", names |-> <<s>>]

DumpList(l) == [kind |-> "list", names |-> l]

\* The items dump collects for the list of names: one per name whose
\* as_namespace is not empty, an empty name being titled "default".
dump_items(h, names) ==
    SelectSeq([i \in 1..Len(names) |->
                  [ title |-> IF names[i] # "" THEN names[i] ELSE "default",
                    data |-> GribMetadata_as_namespace(h, Some(names[i])) ]],
              LAMBDA item : DOMAIN item.data # {})

\* GribMetadata.dump; the list r handed to format_namespace_dump is the result.
\* namespace=None is neither all nor a str, and "for ns in None" raises.
GribMetadata_dump(h, namespace) ==
    IF namespace.kind = "all" THEN Ok(dump_items(h, NAMESPACES))
    ELSE IF namespace.kind = "none" THEN Err("TypeError", "NoneType object is not iterable")
    ELSE Ok(dump_items(h, namespace.names))

\* RestrictedGribMetadata.dump: self.metadata.dump of the wrapped facade
Restricted_dump(h, namespace) ==
    GribMetadata_dump(h, IF namespace.kind = "all" THEN DumpList(Restricted_namespaces)
                         ELSE namespace)

Facade_dump(hs, fs, f, namespace) ==
    IF fs[f].kind = "restricted"
    THEN Restricted_dump(hs[fs[f].h], namespace)
    ELSE GribMetadata_dump(hs[fs[f].h], namespace)

DumpArgs ==
    {DumpAll, DumpNone}
    \cup {DumpStr(s) : s \in {"", "default", "mars", "statistics", "time"}}
    \cup {DumpList(l) : l \in {<<"ls", "statistics">>, <<"time", "mars">>, <<>>}}

\* metadata.dump(namespace)
Dump ==
    \E f \in 1..Len(facades), namespace \in DumpArgs :
        /\ last' = [op |-> "dump", f |-> f, namespace |-> namespace,
                    result |-> Facade_dump(handles, facades, f, namespace)]
        /\ UNCHANGED <<handles, facades, md, gs, eccVersion, geo, coordReads, shp, callers, serialized, SETTINGS, yamlFile, entered>>

NextView == HideInternalKeys \/ Get \/ AsNamespace \/ Namespaces \/ Dump

SpecView == InitView /\ [][NextView]_vars

---------------------------------------------------------------------------
(* Claims about the restricted view (SpecView) *)

LastOnRestricted(op) ==
    /\ last.op = op
    /\ facades[last.f].kind = "restricted"

LastHandle == handles[facades[last.f].h]

\* C3, first half: on a restricted view, get(k) of a hidden key k returns the
\* default that was passed, whatever the handle holds.
C3_PlainNameHidden ==
    (LastOnRestricted("get") /\ Len(last.key) = 1 /\ last.key[1] \in INTERNAL_KEYS)
        => last.result = last.default

\* C3: for every hidden key k of the restricted view, get(k) returns the
\* default/absent value while get("grib." + k) returns the true value held by
\* the underlying handle.
C3_RestrictionInvariant ==
    /\ C3_PlainNameHidden
    /\ (LastOnRestricted("get") /\ Len(last.key) = 2 /\ last.key[1] = "grib"
            /\ last.key[2] \in INTERNAL_KEYS)
        => last.result = Handle_get(LastHandle, <<last.key[2]>>, last.default)

\* A restricted view read "grib.average" on a handle that holds average.
C3_Witness ==
    /\ LastOnRestricted("get")
    /\ last.key = <<"grib", "average">>
    /\ last.default = None
    /\ LastHandle.keys["average"] = Some(IntV(7))

\* The elements of a list
Range(s) == {s[i] : i \in 1..Len(s)}

\* C10: on a restricted view, namespaces() never contains "statistics",
\* as_namespace("statistics") is empty, and as_namespace(ns) of any other
\* namespace holds no hidden key and keeps every non-hidden key, with its
\* value, of the wrapped facade's as_namespace(ns).
C10_RestrictedNamespaces ==
    /\ LastOnRestricted("namespaces") => "statistics" \notin Range(last.result)
    /\ LastOnRestricted("as_namespace") =>
        LET wrapped == Facade_as_namespace(handles, facades, facades[last.f].wraps, last.namespace)
        IN  IF last.namespace = Some("statistics")
            THEN DOMAIN last.result = {}
            ELSE /\ DOMAIN last.result \cap INTERNAL_KEYS = {}
                 /\ \A k \in DOMAIN wrapped :
                        k \notin INTERNAL_KEYS =>
                            k \in DOMAIN last.result /\ last.result[k] = wrapped[k]

\* A restricted view returned the "mars" namespace of a handle whose "mars"
\* namespace holds the hidden key max and the plain key level.
C10_Witness ==
    /\ LastOnRestricted("as_namespace")
    /\ last.namespace = Some("mars")
    /\ {"max", "level"} \subseteq DOMAIN Facade_as_namespace(handles, facades, facades[last.f].wraps, last.namespace)
    /\ DOMAIN last.result = {"level"}

---------------------------------------------------------------------------
(* Claims about override (SpecMeta) *)

\* The standalone facade an override returned: the result itself, or the one
\* the returned restricted view wraps.
ReturnedStandAlone(fs, r) == IF fs[r].kind = "restricted" THEN fs[fs[r].wraps] ELSE fs[r]

\* C4: no step changes a key value, the value buffer or the operation log of
\* an existing handle or an existing facade, and every override call returns
\* a new standalone facade (wrapped in a new restricted view when called on
\* one) whose handle is a new clone that no earlier facade uses.
C4_Step ==
    /\ Len(handles') >= Len(handles)
    /\ \A i \in 1..Len(handles) : handles'[i] = handles[i]
    /\ Len(facades') >= Len(facades)
    /\ \A j \in 1..Len(facades) : facades'[j] = facades[j]
    /\ last'.op = "override" =>
        LET sa == ReturnedStandAlone(facades', last'.result) IN
        /\ last'.result > Len(facades)
        /\ facades[last'.f].kind # "restricted" => facades'[last'.result].kind = "standalone"
        /\ sa.kind = "standalone"
        /\ sa.h = Len(handles) + 1
        /\ Len(handles') = Len(handles) + 1
        /\ \A j \in 1..Len(facades) : facades[j].h # sa.h

C4_OverrideImmutability == [][C4_Step]_vars

\* Two overrides were made, the second with a gridspec that resized the
\* buffer, and the field's own handle still has its three values.
C4_Witness ==
    /\ last.op = "override"
    /\ Len(handles) = 3
    /\ handles[1].values = <<5, 7, 9>>
    /\ handles[1].keys["Ni"] = Some(IntV(3))
    /\ handles[3].values = <<0, 0>>
    /\ handles[3].keys["Ni"] = Some(IntV(2))

\* C5: after override with a gridspec whose conversion gives a point count
\* n > 0 the new handle's buffer is n zeros; with no point count, or one that
\* is not positive, the buffer is the one the clone was made with and
\* set_values was never called on it.
C5_ZeroFilledBuffer ==
    last.op = "override" =>
        LET new == handles[Len(handles)]
            src == handles[facades[last.f].h]
        IN  IF last.gridspec # None /\ last.size # None /\ last.size[1] > 0
            THEN /\ Len(new.values) = last.size[1]
                 /\ \A i \in 1..Len(new.values) : new.values[i] = 0
            ELSE /\ new.values = Handle_clone(src, last.headers_only_clone).values
                 /\ "set_values" \notin Range(new.log)

\* An override with a gridspec converted to 2 points was made on a full clone
\* of three non-zero values.
C5_Witness ==
    /\ last.op = "override"
    /\ last.gridspec # None
    /\ last.size = Some(2)
    /\ ~last.headers_only_clone
    /\ handles[facades[last.f].h].values = <<5, 7, 9>>
    /\ handles[Len(handles)].values = <<0, 0>>

---------------------------------------------------------------------------
(* Claims about dump (SpecView) *)

\* C11: on a restricted view, dump of any namespace argument shows no item
\* for the internal namespace "statistics" and no hidden key inside any item.
C11_RestrictedDump ==
    (LastOnRestricted("dump") /\ last.result.err = "ok") =>
        \A i \in 1..Len(last.result.v) :
            /\ last.result.v[i].title # "statistics"
            /\ DOMAIN last.result.v[i].data \cap INTERNAL_KEYS = {}

\* What holds of C11: dump(all) on a restricted view has no item titled
\* "statistics".
C11_AllOmitsStatistics ==
    (LastOnRestricted("dump") /\ last.namespace = DumpAll) =>
        /\ last.result.err = "ok"
        /\ \A i \in 1..Len(last.result.v) : last.result.v[i].title # "statistics"

\* The titles of a dump result, in order
Titles(r) == [i \in 1..Len(r) |-> r[i].title]

LastOnGribMetadata(op) ==
    /\ last.op = op
    /\ facades[last.f].kind # "restricted"

\* What holds of C17: dump("") dumps the "default" namespace, dump(all) the
\* eight namespaces in their fixed order, and in every case an item is shown
\* exactly for the namespaces that are not empty.
C17_DumpSkipsEmpty ==
    (LastOnGribMetadata("dump") /\ last.namespace.kind # "none") =>
        LET names == IF last.namespace.kind = "all"
                     THEN <<"default", "ls", "geography", "mars", "parameter",
                            "statistics", "time", "vertical">>
                     ELSE last.namespace.names
            shown == SelectSeq(names,
                        LAMBDA n : DOMAIN GribMetadata_as_namespace(LastHandle, Some(n)) # {})
        IN  /\ last.result.err = "ok"
            /\ Titles(last.result.v) = [i \in 1..Len(shown) |->
                                           IF shown[i] = "" THEN "default" ELSE shown[i]]
            /\ \A i \in 1..Len(last.result.v) :
                  /\ DOMAIN last.result.v[i].data # {}
                  /\ last.result.v[i].data = GribMetadata_as_namespace(LastHandle, Some(shown[i]))

\* C17: dump(None) and dump("") both dump the "default" namespace, dump(all)
\* dumps the fixed list of eight namespaces, and empty namespaces are skipped.
C17_DumpNamespaces ==
    /\ C17_DumpSkipsEmpty
    /\ (LastOnGribMetadata("dump") /\ last.namespace.kind = "none") =>
          /\ last.result.err = "ok"
          /\ last.result.v = GribMetadata_dump(LastHandle, DumpStr("")).v

---------------------------------------------------------------------------
(* Claims about the restriction across override (SpecMeta) *)

\* C12: override on a restricted view returns a restricted view wrapping a new
\* standalone facade, and get of every hidden key under its unqualified name
\* returns the default on it, whatever the patch and the gridspec were; every
\* restricted view wraps a standalone facade; _hide_internal_keys on a
\* restricted view returns that view.
C12_RestrictionPreserved ==
    /\ \A f \in 1..Len(facades) :
          facades[f].kind = "restricted" =>
              /\ facades[facades[f].wraps].kind = "standalone"
              /\ facades[f].h = facades[facades[f].wraps].h
              /\ \A k \in INTERNAL_KEYS, default \in Defaults :
                    Facade_get(handles, facades, f, <<k>>, default) = default
    /\ (last.op = "override" /\ facades[last.f].kind = "restricted") =>
          /\ facades[last.result].kind = "restricted"
          /\ facades[last.result].wraps = last.result - 1
          /\ facades[last.result].wraps > last.f
    /\ (last.op = "_hide_internal_keys" /\ facades[last.f].kind = "restricted") =>
          last.result = last.f

\* Two overrides in a row starting from a restricted view: the second was
\* made on the view the first returned, whose handle holds the hidden key max.
C12_Witness ==
    /\ last.op = "override"
    /\ facades[last.f].kind = "restricted"
    /\ last.f > 2
    /\ facades[1].kind = "standalone"
    /\ facades[last.result].kind = "restricted"
    /\ handles[facades[last.result].h].keys["max"] = Some(IntV(9))
    /\ Facade_get(handles, facades, last.result, <<"max">>, None) = None

---------------------------------------------------------------------------
(* Claims about the shape of a GridSpec (SpecGrid) *)

GaussianTags == {"regular_gg", "reduced_gg", "rotated_gg", "reduced_rotated_gg"}

FirstPointTags == {"polar_stereographic", "lambert", "lambert_azimuthal_equal_area"}

\* type is one of the 11 tags, and grid, area and first_point, where present,
\* have the shape that goes with the type: grid is a string (label, N) for
\* the Gaussian types, a scalar for reduced_ll and a pair otherwise; area is
\* a 4-element box and first_point a 2-element point.
TypedShapes(d) ==
    /\ {"type", "grid"} \subseteq DOMAIN d
    /\ d["type"] \in ElevenTags
    /\ IF d["type"] \in GaussianTags
       THEN Len(d["grid"]) = 2 /\ d["grid"][1] \in {"F", "O", "N"}
       ELSE IF d["type"] = "reduced_ll"
       THEN d["grid"] \in [n : Int, d : Int]
       ELSE Len(d["grid"]) = 2 /\ \A i \in 1..2 : d["grid"][i] \in [n : Int, d : Int]
    /\ "area" \in DOMAIN d => Len(d["area"]) = 4
    /\ "first_point" \in DOMAIN d => Len(d["first_point"]) = 2

\* Which of grid, area and first_point a GridSpec has
Presence(d) == {"grid", "area", "first_point"} \cap DOMAIN d

\* The views that differ from m in one key other than gridType.
OneKeyChanged(m) ==
    { [m EXCEPT ![k] = v] : k \in MdKeys \ {"gridType"}, v \in FlagOpts }

\* C13 as stated: every GridSpec made has a type among the 11 tags, typed
\* shapes, and the same entries among grid/area/first_point as the GridSpec
\* of any view of the same gridType.
C13_Original ==
    (Made /\ gs.status = "ok") =>
        /\ TypedShapes(gs.d)
        /\ \A m \in OneKeyChanged(md) :
              make_gridspec(m).status = "ok" => Presence(make_gridspec(m).d) = Presence(gs.d)

\* C13 amended: every GridSpec made has type equal to the view's gridType, one
\* of the 11 tags; grid is always present with the shape of its type;
\* first_point is present exactly for polar_stereographic, lambert and
\* lambert_azimuthal_equal_area; area is present for the lat-lon types and
\* mercator, and for the Gaussian types exactly when the key global is not 1.
C13_TypeDeterminesShape ==
    (Made /\ gs.status = "ok") =>
        /\ TypedShapes(gs.d)
        /\ Some(gs.d["type"]) = GridTypeOf(md)
        /\ "first_point" \in DOMAIN gs.d <=> gs.d["type"] \in FirstPointTags
        /\ "area" \in DOMAIN gs.d <=>
              IF gs.d["type"] \in GaussianTags THEN MdGet(md, "global") # Some(1)
              ELSE gs.d["type"] \notin FirstPointTags

\* A GridSpec without area was made for a global reduced_gg view.
C13_Witness ==
    /\ gs.status = "ok"
    /\ gs.d["type"] = "reduced_gg"
    /\ MdGet(md, "global") = Some(1)
    /\ "area" \notin DOMAIN gs.d

---------------------------------------------------------------------------
(* Claims about the round trip through the GridSpec (SpecGrid) *)

\* The vocabulary keys that the Maker of a grid type names in make(), in the
\* spelling of the vocabulary table, with the scan-mode keys and, for the
\* rotated types, the rotation keys.
GeometryKeys(t) ==
    {"iScansNegatively", "jPointsAreConsecutive", "jScansPositively"}
    \cup (IF t \in TagsContainingRotated
          THEN {"latitudeOfSouthernPoleInDegrees", "longitudeOfSouthernPoleInDegrees",
                "angleOfRotationInDegrees"}
          ELSE {})
    \cup (CASE t = "mercator" -> {"Ni", "Nj", "LaDInDegrees", "orientationOfTheGridInDegrees"}
            [] t = "polar_stereographic" ->
                  {"Nx", "Ny", "LaDInDegrees", "orientationOfTheGridInDegrees"}
            [] t = "lambert" ->
                  {"Nx", "Ny", "LaDInDegrees", "LoVInDegrees", "Latin1InDegrees", "Latin2InDegrees"}
            [] t = "lambert_azimuthal_equal_area" ->
                  {"Nx", "Ny", "standardParallelInDegrees", "centralLongitudeInDegrees"}
            [] OTHER -> {})

\* C14: to_metadata(make_gridspec(md)) reproduces the geometry keys of md, for
\* every registered grid type.  to_metadata sees the GridSpec alone, so this
\* requires that two views of one grid type holding different values of a
\* geometry key never have the same GridSpec.
C14_RoundTrip ==
    (Made /\ gs.status = "ok") =>
        \A k \in GeometryKeys(gs.d["type"]) :
            MdGet(md, k) # None =>
                LET other == make_gridspec([md EXCEPT ![k] = Some(MdGet(md, k)[1] + 1)])
                IN  other.status = "ok" => other.d # gs.d

\* What holds of C14: the same for every grid type but lambert, and for
\* lambert on every geometry key but the two secant latitudes.
C14_RoundTripButSecants ==
    (Made /\ gs.status = "ok") =>
        \A k \in GeometryKeys(gs.d["type"]) \ {"Latin1InDegrees", "Latin2InDegrees"} :
            MdGet(md, k) # None =>
                LET other == make_gridspec([md EXCEPT ![k] = Some(MdGet(md, k)[1] + 1)])
                IN  other.status = "ok" => other.d # gs.d

---------------------------------------------------------------------------
(* Claims about the typed get (SpecView) *)

\* What the handle holds for a plain key name, or the default
Stored(h, name, default) == Handle_get(h, <<name>>, default)

\* get("shortName"), spelled out: the handle's shortName or the default, and
\* when that is "~" the paramId held by the handle as a string, or the
\* default when the handle holds no paramId.
ShortNameLookup(h, default) ==
    IF Stored(h, "shortName", default) # Some(StrV("~")) THEN Stored(h, "shortName", default)
    ELSE IF h.keys["paramId"] = None THEN default
    ELSE Some(StrV(ToString(h.keys["paramId"][1].i)))

\* C15: through a GribMetadata facade, get("param") is get("shortName") and
\* get("_param_id") is get("paramId"); a shortName (or param) lookup that
\* finds "~" returns the paramId value, as a string, instead of "~"; every
\* other key returns the handle's value, or the default when absent.
C15_TypedGet ==
    LastOnGribMetadata("get") =>
        IF last.key \in {<<"shortName">>, <<"param">>}
        THEN last.result = ShortNameLookup(LastHandle, last.default)
        ELSE IF last.key \in {<<"paramId">>, <<"_param_id">>}
        THEN last.result = Stored(LastHandle, "paramId", last.default)
        ELSE IF Len(last.key) = 1
        THEN last.result = Stored(LastHandle, last.key[1], last.default)
        ELSE last.result = last.default

\* get("param") was called on a handle whose shortName is "~" and whose
\* paramId is 167, and returned "167".
C15_Witness ==
    /\ LastOnGribMetadata("get")
    /\ last.key = <<"param">>
    /\ LastHandle.keys["shortName"] = Some(StrV("~"))
    /\ LastHandle.keys["paramId"] = Some(IntV(167))
    /\ last.result = Some(StrV("167"))

---------------------------------------------------------------------------
(* readers/grib/metadata.py: the datetime accessors of GribMetadata *)

\* utils.dates.datetime_from_grib(date, time): the datetime of a date and a
\* time that are both given.
datetime_from_grib(date, time) ==
    IF date = None \/ time = None
    THEN Err("TypeError", "unsupported operand type NoneType")
    ELSE Ok(Some([date |-> date[1].i, time |-> time[1].i]))

\* utils.dates.to_timedelta(step): the timedelta of a step in hours, the null
\* value for a step that is None.
to_timedelta(step) ==
    IF step = None THEN Ok(None) ELSE Ok(Some([hours |-> step[1].i]))

\* A _datetime that asks only for the date
GribMetadata_datetime_date_only(h, date_key, time_key) ==
    LET date == GribMetadata_get(h, <<date_key>>, None)
        time == GribMetadata_get(h, <<time_key>>, None)
    IN  IF date # None THEN datetime_from_grib(date, time) ELSE Ok(None)

\* GribMetadata._datetime
GribMetadata_datetime(h, date_key, time_key) ==
    LET date == GribMetadata_get(h, <<date_key>>, None)
        time == GribMetadata_get(h, <<time_key>>, None)
    IN  IF date # None /\ time # None THEN datetime_from_grib(date, time) ELSE Ok(None)

base_datetime(h) == GribMetadata_datetime(h, "dataDate", "dataTime")

valid_datetime(h) == GribMetadata_datetime(h, "validityDate", "validityTime")

reference_datetime(h) == GribMetadata_datetime(h, "referenceDate", "referenceTime")

indexing_datetime(h) == GribMetadata_datetime(h, "indexingDate", "indexingTime")

step_timedelta(h) == to_timedelta(GribMetadata_get(h, <<"step">>, None))

\* The raw keys each accessor combines
RawKeys(accessor) ==
    CASE accessor = "base_datetime" -> {"dataDate", "dataTime"}
      [] accessor = "valid_datetime" -> {"validityDate", "validityTime"}
      [] accessor = "reference_datetime" -> {"referenceDate", "referenceTime"}
      [] accessor = "indexing_datetime" -> {"indexingDate", "indexingTime"}
      [] accessor = "step_timedelta" -> {"step"}

---------------------------------------------------------------------------
(* SpecTime: the datetime accessors on the facade of one handle *)

\* Handles holding any subset of the date, time and step keys.
TimeHandles ==
    { [keys |-> [k \in HKeys |->
                    IF k \in TimeKeys
                    THEN IF k \in present
                         THEN Some(IntV(CASE k = "step" -> 6
                                          [] k \in {"dataTime", "validityTime", "referenceTime",
                                                    "indexingTime"} -> 1200
                                          [] OTHER -> 20240101))
                         ELSE None
                    ELSE MessageKeys[k]],
       values |-> <<5, 7, 9>>, log |-> <<>>] : present \in SUBSET TimeKeys }

InitTime ==
    /\ handles \in {<<h>> : h \in TimeHandles}
    /\ facades \in {<<FieldFacade(1)>>, <<StandAlone(1)>>}
    /\ last = NoLast
    /\ md = NoKeys
    /\ gs = NoGridSpec
    /\ eccVersion = NoVersion
    /\ geo = "none"
    /\ coordReads = 0
    /\ shp = None
    /\ callers = NoCallers
    /\ serialized = FALSE
    /\ SETTINGS = NoSettings /\ yamlFile = NoSettings /\ entered = NoSettings

Accessed(accessor, result) ==
    /\ last' = [op |-> accessor, f |-> 1, result |-> result]
    /\ UNCHANGED <<handles, facades, md, gs, eccVersion, geo, coordReads, shp, callers, serialized, SETTINGS, yamlFile, entered>>

BaseDatetime == Accessed("base_datetime", base_datetime(handles[facades[1].h]))

ValidDatetime == Accessed("valid_datetime", valid_datetime(handles[facades[1].h]))

ReferenceDatetime == Accessed("reference_datetime", reference_datetime(handles[facades[1].h]))

IndexingDatetime == Accessed("indexing_datetime", indexing_datetime(handles[facades[1].h]))

StepTimedelta == Accessed("step_timedelta", step_timedelta(handles[facades[1].h]))

NextTime ==
    BaseDatetime \/ ValidDatetime \/ ReferenceDatetime \/ IndexingDatetime \/ StepTimedelta

SpecTime == InitTime /\ [][NextTime]_vars

---------------------------------------------------------------------------
(* Claims about the datetime accessors (SpecTime) *)

Accessors ==
    {"base_datetime", "valid_datetime", "reference_datetime", "indexing_datetime",
     "step_timedelta"}

KeyAbsent(k) == handles[facades[1].h].keys[k] = None

---------------------------------------------------------------------------
(* readers/grib/metadata.py: latitudes_unrotated, longitudes_unrotated *)

\* GribFieldGeography.rotated_iterator
rotated_iterator(m) == MdGet(m, "iteratorDisableUnrotate") # None

\* Entering handle._set_tmp(key, value_set, value_reset) without setting the key
set_tmp_enter_noop(m, key, value_set) == m

\* Entering handle._set_tmp(key, value_set, value_reset): the key is set to
\* value_set.
set_tmp_enter(m, key, value_set) == [m EXCEPT ![key] = Some(value_set)]

\* Leaving handle._set_tmp(key, value_set, value_reset), by return or by an
\* exception: the key is set to value_reset.
set_tmp_exit(m, key, value_reset) == [m EXCEPT ![key] = Some(value_reset)]

\* The branch latitudes_unrotated and longitudes_unrotated take
unrotated_branch(m) ==
    IF ~rotated(m).v THEN "plain"
    ELSE IF ~rotated_iterator(m) THEN "fallback_lat"
    ELSE "entering"

---------------------------------------------------------------------------
(* SpecUnrotate: callers of the unrotated reads on one Geography accessor *)

Callers == 1..NumCallers

Idle == [pc |-> "idle", op |-> "", before |-> None, seen |-> None, after |-> None,
         result |-> ""]

\* A constructed accessor: a grid type is set, and ecCodes supports it.
UnrotateViews ==
    { With(With(NoKeys, Corners),
           [ gridType |-> Some(gt),
             latitudeOfSouthernPoleInDegrees |-> Some(-30),
             longitudeOfSouthernPoleInDegrees |-> Some(20),
             iteratorDisableUnrotate |-> flag ]) :
        gt \in {"regular_ll", "rotated_ll", "rotated_gg", "reduced_rotated_gg"},
        flag \in {None, Some(0), Some(1)} }

InitUnrotate ==
    /\ md \in UnrotateViews
    /\ eccVersion = MinRotatedReducedVersion
    /\ geo = "ok"
    /\ callers = [c \in Callers |-> Idle]
    /\ serialized \in BOOLEAN
    /\ SETTINGS = NoSettings /\ yamlFile = NoSettings /\ entered = NoSettings
    /\ gs = NoGridSpec
    /\ handles = <<>>
    /\ facades = <<>>
    /\ last = NoLast
    /\ coordReads = 0
    /\ shp = None

\* No other caller is inside a call.
Alone(c) == \A d \in Callers \ {c} : callers[d].pc \in {"idle", "done"}

\* latitudes_unrotated ("lat") or longitudes_unrotated ("lon") is called and
\* picks its branch; a caller that serializes waits for the facade to be free.
CallUnrotated(c) ==
    \E op \in {"lat", "lon"} :
        /\ callers[c].pc = "idle"
        /\ serialized => Alone(c)
        /\ callers' = [callers EXCEPT ![c].pc = unrotated_branch(md), ![c].op = op,
                                      ![c].before = MdGet(md, "iteratorDisableUnrotate")]
        /\ UNCHANGED <<md, gs, handles, facades, last, eccVersion, geo, coordReads, shp,
                       serialized, SETTINGS, yamlFile, entered>>

\* One coordinate read of the handle, which returns or raises
ReadOutcomes == {"ok", "error"}

\* not self.rotated: return self.latitudes() / self.longitudes()
PlainRead(c) ==
    \E r \in ReadOutcomes :
        /\ callers[c].pc = "plain"
        /\ callers' = [callers EXCEPT ![c].pc = "done", ![c].result = r]
        /\ UNCHANGED <<md, gs, handles, facades, last, eccVersion, geo, coordReads, shp,
                       serialized, SETTINGS, yamlFile, entered>>

\* not self.rotated_iterator: self.latitudes() of the fallback
FallbackLatRead(c) ==
    \E r \in ReadOutcomes :
        /\ callers[c].pc = "fallback_lat"
        /\ callers' = [callers EXCEPT ![c].pc = IF r = "ok" THEN "fallback_lon" ELSE "done",
                                      ![c].result = IF r = "ok" THEN "" ELSE r]
        /\ UNCHANGED <<md, gs, handles, facades, last, eccVersion, geo, coordReads, shp,
                       serialized, SETTINGS, yamlFile, entered>>

\* self.longitudes() of the fallback, then unrotate(lat, lon, ...)
FallbackLonRead(c) ==
    \E r \in ReadOutcomes :
        /\ callers[c].pc = "fallback_lon"
        /\ callers' = [callers EXCEPT ![c].pc = "done", ![c].result = r]
        /\ UNCHANGED <<md, gs, handles, facades, last, eccVersion, geo, coordReads, shp,
                       serialized, SETTINGS, yamlFile, entered>>

\* with self.metadata._handle._set_tmp("iteratorDisableUnrotate", 1, 0):
EnterScope(c) ==
    /\ callers[c].pc = "entering"
    /\ md' = set_tmp_enter(md, "iteratorDisableUnrotate", 1)
    /\ callers' = [callers EXCEPT ![c].pc = "scoped"]
    /\ UNCHANGED <<gs, handles, facades, last, eccVersion, geo, coordReads, shp, serialized, SETTINGS, yamlFile, entered>>

\* return self.latitudes() / self.longitudes() inside the with block: the
\* iterator reads the key as it is now.
ScopedRead(c) ==
    \E r \in ReadOutcomes :
        /\ callers[c].pc = "scoped"
        /\ callers' = [callers EXCEPT ![c].pc = "leaving", ![c].result = r,
                                      ![c].seen = MdGet(md, "iteratorDisableUnrotate")]
        /\ UNCHANGED <<md, gs, handles, facades, last, eccVersion, geo, coordReads, shp,
                       serialized, SETTINGS, yamlFile, entered>>

\* The with block is left, by the return or by the exception of the read.
ExitScope(c) ==
    /\ callers[c].pc = "leaving"
    /\ md' = set_tmp_exit(md, "iteratorDisableUnrotate", 0)
    /\ callers' = [callers EXCEPT ![c].pc = "done",
                                  ![c].after = MdGet(md', "iteratorDisableUnrotate")]
    /\ UNCHANGED <<gs, handles, facades, last, eccVersion, geo, coordReads, shp, serialized, SETTINGS, yamlFile, entered>>

Unrotated(c) ==
    \/ CallUnrotated(c)
    \/ PlainRead(c)
    \/ FallbackLatRead(c)
    \/ FallbackLonRead(c)
    \/ EnterScope(c)
    \/ ScopedRead(c)
    \/ ExitScope(c)

NextUnrotate == \E c \in Callers : Unrotated(c)

SpecUnrotate == InitUnrotate /\ [][NextUnrotate]_vars

---------------------------------------------------------------------------
(* Claims about the scoped override of iteratorDisableUnrotate (SpecUnrotate) *)

\* The caller has left the with block.
LeftScope(c) == callers[c].after # None

\* What holds of C18: a caller that left the with block, by return or by
\* error, left the key at 0; and in a serialized run the key is not 1 once
\* every call has ended, unless a call found it at 1.
C18_RestoredToZero ==
    /\ \A c \in Callers : LeftScope(c) => callers[c].after = Some(0)
    /\ \A c \in Callers :
          (serialized /\ callers[c].pc = "done" /\ callers[c].before # Some(1)
              /\ \A d \in Callers : callers[d].pc \in {"idle", "done"})
            => MdGet(md, "iteratorDisableUnrotate") # Some(1)

\* C18: for a rotated grid whose iterator supports unrotation, the key
\* iteratorDisableUnrotate is, on every exit path of latitudes_unrotated and
\* longitudes_unrotated, restored to the value it had before the call.
C18_RestoredToPrior ==
    \A c \in Callers :
        (serialized /\ LeftScope(c)) => callers[c].after = callers[c].before

\* A serialized call on a handle whose key was 1 left the with block through
\* the error of its read, and left the key at 0.
C18_Witness ==
    \E c \in Callers :
        /\ serialized
        /\ callers[c].result = "error"
        /\ callers[c].before = Some(1)
        /\ callers[c].seen = Some(1)
        /\ callers[c].after = Some(0)

\* C19: when the unrotated reads on one facade are serialized, every
\* coordinate read inside the with block observes iteratorDisableUnrotate = 1;
\* that concurrent reads can observe the restored key is the reachability of
\* C19_Witness.
C19_SerializedReadsSeeOne ==
    serialized => \A c \in Callers : callers[c].seen # None => callers[c].seen = Some(1)

\* Two reads run concurrently, and one made its coordinate read inside its
\* with block after the other had left its own and restored the key to 0.
C19_Witness ==
    \E c, d \in Callers :
        /\ c # d
        /\ ~serialized
        /\ callers[c].pc = "leaving"
        /\ callers[c].seen = Some(0)
        /\ LeftScope(d)

---------------------------------------------------------------------------
(* readers/grib/metadata.py: GribFieldGeography.resolution *)

\* The float r times the int k
RatTimes(r, k) ==
    LET g == GCD(r.d, IntAbs(k)) IN Rat(r.n * (k \div g), r.d \div g)

\* Python's round() of a float to an int: to the nearest, a tie to the even one.
PyRound(r) ==
    LET lo == r.n \div r.d
        twice == 2 * (r.n % r.d)
    IN  IF twice < r.d THEN lo
        ELSE IF twice > r.d THEN lo + 1
        ELSE IF lo % 2 = 0 THEN lo ELSE lo + 1

\* round(x * 1_000_000) / 1_000_000
round6(x) == Rat(PyRound(RatTimes(x, 1000000)), 1000000)

\* The digits str() writes after the point for r thousandths, 0 <= r < 1000
Thousandths(r) ==
    IF r % 100 = 0 THEN ToString(r \div 100)
    ELSE IF r % 10 = 0 THEN ToString(r \div 100) \o ToString((r \div 10) % 10)
    ELSE ToString(r \div 100) \o ToString((r \div 10) % 10) \o ToString(r % 10)

\* str(x / 1000).replace(".", "p") + "km" for an int x of metres
km_label(x) ==
    (IF x < 0 THEN "-" ELSE "")
        \o ToString(IntAbs(x) \div 1000) \o "p" \o Thousandths(IntAbs(x) % 1000) \o "km"

\* A resolution that compares and returns the increments as they are read
resolution_unrounded(m) ==
    LET grid_type == MdGet(m, "gridType")
        x == MdGet(m, "DxInDegrees")
        y == MdGet(m, "DyInDegrees")
    IN  IF grid_type \in {Some("regular_ll"), Some("rotated_ll")} /\ x # None /\ y # None
        THEN IF x # y THEN Err("AssertionError", "x, y") ELSE Ok(x)
        ELSE Err("ValueError", "Unknown gridType")

\* GribFieldGeography.resolution
resolution(m) ==
    LET grid_type == MdGet(m, "gridType") IN
    IF grid_type \in {Some("reduced_gg"), Some("reduced_rotated_gg")}
    THEN Ok(MdGet(m, "gridName"))
    ELSE IF grid_type \in {Some("regular_ll"), Some("rotated_ll")}
    THEN LET x == MdGet(m, "DxInDegrees")
             y == MdGet(m, "DyInDegrees")
         IN  IF x = None \/ y = None
             THEN Err("TypeError", "unsupported operand type(s) for *: NoneType and int")
             ELSE IF round6(x[1]) # round6(y[1])
             THEN Err("AssertionError", "x, y")
             ELSE Ok(Some(round6(x[1])))
    ELSE IF grid_type \in {Some("lambert"), Some("lambert_azimuthal_equal_area")}
    THEN LET x == MdGet(m, "DxInMetres")
             y == MdGet(m, "DyInMetres")
         IN  IF x # y
             THEN Err("AssertionError", "x, y")
             ELSE IF x = None
             THEN Err("TypeError", "unsupported operand type(s) for /: NoneType and int")
             ELSE Ok(Some(km_label(x[1])))
    ELSE Err("ValueError", "Unknown gridType")

---------------------------------------------------------------------------
(* SpecResolution: resolution() on the accessor of one metadata view *)

\* Increments in degrees: 0.25, 1/3, 0.333333 (which 1/3 rounds to), 0.5
DegreeOpts == {None, Some(Rat(1, 4)), Some(Rat(1, 3)), Some(Rat(333333, 1000000)), Some(Rat(1, 2))}

\* Increments in metres
MetrePairs ==
    {<<None, None>>, <<Some(2500), Some(2500)>>, <<Some(2500), Some(3000)>>,
     <<Some(3000), Some(3000)>>, <<None, Some(2500)>>, <<Some(12345), Some(12345)>>}

ResolutionViews ==
    { With(NoKeys,
           [ gridType |-> Some(gt), DxInDegrees |-> dx, DyInDegrees |-> dy,
             DxInMetres |-> mp[1], DyInMetres |-> mp[2], gridName |-> name ]) :
        gt \in RegisteredTags \cup {"sh"}, dx \in DegreeOpts, dy \in DegreeOpts,
        mp \in MetrePairs, name \in {None, Some("O32")} }

InitResolution ==
    /\ md \in ResolutionViews
    /\ eccVersion = MinRotatedReducedVersion
    /\ geo = "ok"
    /\ last = NoLast
    /\ gs = NoGridSpec
    /\ handles = <<>>
    /\ facades = <<>>
    /\ coordReads = 0
    /\ shp = None
    /\ callers = NoCallers
    /\ serialized = FALSE
    /\ SETTINGS = NoSettings /\ yamlFile = NoSettings /\ entered = NoSettings

\* geography.resolution()
Resolution ==
    /\ geo = "ok"
    /\ last' = [op |-> "resolution", result |-> resolution(md)]
    /\ UNCHANGED <<md, gs, handles, facades, eccVersion, geo, coordReads, shp, callers,
                   serialized, SETTINGS, yamlFile, entered>>

NextResolution == Resolution

SpecResolution == InitResolution /\ [][NextResolution]_vars

---------------------------------------------------------------------------
(* Claims about resolution (SpecResolution) *)

GridTypeIn(tags) == md["gridType"][1] \in tags

BothDegrees == md["DxInDegrees"] # None /\ md["DyInDegrees"] # None

BothMetres == md["DxInMetres"] # None /\ md["DyInMetres"] # None

\* C20: resolution returns the gridName key for reduced_gg and
\* reduced_rotated_gg; for regular_ll and rotated_ll the common increment
\* rounded to six decimals, and an error when the two rounded increments
\* differ; for lambert and lambert_azimuthal_equal_area the "<km>km" label of
\* the metre increment, and an error when the two metre increments differ; for
\* any other grid type the ValueError of an unknown grid type.  Increments
\* that disagree never give a value.
C20_Resolution ==
    last.op = "resolution" =>
        /\ GridTypeIn({"reduced_gg", "reduced_rotated_gg"})
              => (last.result.err = "ok" /\ last.result.v = md["gridName"])
        /\ (GridTypeIn({"regular_ll", "rotated_ll"}) /\ BothDegrees)
              => IF round6(md["DxInDegrees"][1]) = round6(md["DyInDegrees"][1])
                 THEN /\ last.result.err = "ok"
                      /\ last.result.v = Some(round6(md["DxInDegrees"][1]))
                      /\ 1000000 % last.result.v[1].d = 0
                 ELSE last.result.err = "AssertionError"
        /\ (GridTypeIn({"lambert", "lambert_azimuthal_equal_area"}) /\ BothMetres)
              => IF md["DxInMetres"] = md["DyInMetres"]
                 THEN /\ last.result.err = "ok"
                      /\ last.result.v = Some(km_label(md["DxInMetres"][1]))
                 ELSE last.result.err = "AssertionError"
        /\ ~GridTypeIn({"reduced_gg", "reduced_rotated_gg", "regular_ll", "rotated_ll",
                        "lambert", "lambert_azimuthal_equal_area"})
              => last.result.err = "ValueError"

\* resolution() was called on a regular_ll view whose increments 1/3 and
\* 0.333333 differ and round to the same six decimals, and returned 0.333333.
C20_Witness ==
    /\ last.op = "resolution"
    /\ GridTypeIn({"regular_ll"})
    /\ md["DxInDegrees"] = Some(Rat(1, 3))
    /\ md["DyInDegrees"] = Some(Rat(333333, 1000000))
    /\ last.result.err = "ok"
    /\ last.result.v = Some(Rat(333333, 1000000))

\* The labels of 2500 m and 12345 m
C20_Labels ==
    (last.op = "resolution" /\ GridTypeIn({"lambert"}) /\ last.result.err = "ok")
        => last.result.v \in {Some("2p5km"), Some("3p0km"), Some("12p345km")}

---------------------------------------------------------------------------
(* SpecAdd: GridSpecMaker._add_one applied to one raw key of a metadata view *)

\* Raw keys requested: in the vocabulary, and outside it (one of them a key
\* every view holds).
AddKeys ==
    {"Nx", "LaDInDegrees", "Latin1InDegrees", "orientationOfTheGridInDegrees",
     "LatIn1InDegrees", "LatIn2InDegrees", "DiInMetres", "gridType"}

InitAdd ==
    /\ md \in ProjectionViews
    /\ gs = NoGridSpec
    /\ handles = <<>>
    /\ facades = <<>>
    /\ last = NoLast
    /\ eccVersion = NoVersion
    /\ geo = "none"
    /\ coordReads = 0
    /\ shp = None
    /\ callers = NoCallers
    /\ serialized = FALSE
    /\ SETTINGS = NoSettings /\ yamlFile = NoSettings /\ entered = NoSettings

\* self._add_one(key, d) on the d a make() has begun: d["type"] is set
AddOne ==
    \E key \in AddKeys :
        /\ last' = [op |-> "add_one", key |-> key, d |-> "type" :> MdGet(md, "gridType")[1],
                    result |-> add_one(md, key, Ok("type" :> MdGet(md, "gridType")[1]))]
        /\ UNCHANGED <<md, gs, handles, facades, eccVersion, geo, coordReads, shp, callers,
                       serialized, SETTINGS, yamlFile, entered>>

NextAdd == AddOne

SpecAdd == InitAdd /\ [][NextAdd]_vars

---------------------------------------------------------------------------
(* Claims about the key-set copy helper (SpecAdd) *)

\* What holds of C21: a key of the vocabulary with a value in the metadata
\* is written as vocabulary[key] = value and nothing else changes; a key
\* without a value in the metadata leaves the output as it was and raises
\* nothing, in the vocabulary or not; a key outside the vocabulary with a value
\* in the metadata raises the ValueError.
C21_AddOneFiltered ==
    last.op = "add_one" =>
        LET key == last.key
            v == MdGet(md, key)
        IN  /\ (v # None /\ key \in DOMAIN vocabulary) =>
                  /\ last.result.err = "ok"
                  /\ DOMAIN last.result.v = DOMAIN last.d \cup {vocabulary[key]}
                  /\ last.result.v[vocabulary[key]] = v[1]
                  /\ \A k \in DOMAIN last.d : last.result.v[k] = last.d[k]
            /\ v = None => last.result = Ok(last.d)
            /\ (v # None /\ key \notin DOMAIN vocabulary) => last.result.err = "ValueError"

\* C21: the helper writes vocabulary[key] = value only when the metadata holds
\* a value for the key, and a raw key that is not in the vocabulary always
\* fails with an error, whether or not the metadata holds a value for it.
C21_UnknownKeyAlwaysFails ==
    last.op = "add_one" =>
        /\ (last.result.err = "ok" /\ DOMAIN last.result.v # DOMAIN last.d)
              => (MdGet(md, last.key) # None
                  /\ last.result.v[vocabulary[last.key]] = MdGet(md, last.key)[1])
        /\ last.key \notin DOMAIN vocabulary => last.result.err # "ok"

\* The helper was asked for LatIn1InDegrees, which the vocabulary does not
\* have and the view does not hold, and returned without an error.
C21_Witness ==
    /\ last.op = "add_one"
    /\ last.key = "LatIn1InDegrees"
    /\ last.key \notin DOMAIN vocabulary
    /\ MdGet(md, last.key) = None
    /\ last.result = Ok(last.d)

---------------------------------------------------------------------------
(* Claims about the area of a GridSpec (SpecGrid) *)

HasArea == gs.status = "ok" /\ "area" \in DOMAIN gs.d

\* north and south of the area are the max and the min of the two latitudes.
NorthSouth(a) ==
    /\ a[1] = Some(IntMax(first_lat(md)[1], last_lat(md)[1]))
    /\ a[3] = Some(IntMin(first_lat(md)[1], last_lat(md)[1]))

\* west and east of the area follow the sign of the i-direction scan.
WestEastByScan(a) ==
    /\ x_scan_dir(md).err = "ok"
    /\ IF x_scan_dir(md).v = POSITIVE_SCAN_DIR
       THEN a[2] = first_lon(md) /\ a[4] = last_lon(md)
       ELSE a[2] = last_lon(md) /\ a[4] = first_lon(md)

\* C22 as stated: in every GridSpec with an area, west is the first longitude
\* and east the last when the i-direction scan is positive, west the last and
\* east the first when it is negative, and north and south are the max and
\* the min of the first and last latitude.
C22_Original ==
    HasArea => (NorthSouth(gs.d["area"]) /\ WestEastByScan(gs.d["area"]))

\* C22 amended: north and south are the max and the min of the first and last
\* latitude in every GridSpec with an area; west and east follow the sign of
\* the i-direction scan for regular_ll, rotated_ll, reduced_ll and mercator,
\* and for the four Gaussian types west is the first longitude and east the
\* last whatever the scan keys say.
C22_AreaBox ==
    HasArea =>
        /\ NorthSouth(gs.d["area"])
        /\ gs.d["type"] \in ScanTags \cup GaussianTags
        /\ gs.d["type"] \in ScanTags => WestEastByScan(gs.d["area"])
        /\ gs.d["type"] \in GaussianTags =>
              (gs.d["area"][2] = first_lon(md) /\ gs.d["area"][4] = last_lon(md))

\* A regular_gg GridSpec with an area was made for a view that scans
\* negatively in i and whose two longitudes differ: west is the first one.
C22_Witness ==
    /\ HasArea
    /\ gs.d["type"] = "regular_gg"
    /\ x_scan_dir(md) = Ok(NEGATIVE_SCAN_DIR)
    /\ first_lon(md) # last_lon(md)
    /\ gs.d["area"][2] = first_lon(md)

---------------------------------------------------------------------------
(* Claims about the Gaussian GridSpec (SpecGrid) *)

MadeGaussian == gs.status = "ok" /\ gs.d["type"] \in GaussianTags

\* C23: the grid of a Gaussian GridSpec is the label followed by the key N;
\* the label is F for regular_gg and rotated_gg, and for reduced_gg and
\* reduced_rotated_gg it is O when isOctahedral is 1 and N otherwise; the
\* area is left out exactly when the key global is 1.
C23_GaussianGrid ==
    MadeGaussian =>
        /\ gs.d["grid"] =
              << IF gs.d["type"] \in {"regular_gg", "rotated_gg"} THEN "F"
                 ELSE IF MdGet(md, "isOctahedral") = Some(1) THEN "O" ELSE "N",
                 MdGet(md, "N") >>
        /\ "area" \notin DOMAIN gs.d <=> MdGet(md, "global") = Some(1)

\* A GridSpec O32 without area was made for a global octahedral
\* reduced_rotated_gg view.
C23_Witness ==
    /\ MadeGaussian
    /\ gs.d["type"] = "reduced_rotated_gg"
    /\ MdGet(md, "isOctahedral") = Some(1)
    /\ MdGet(md, "global") = Some(1)
    /\ gs.d["grid"] = <<"O", Some(32)>>
    /\ "area" \notin DOMAIN gs.d

---------------------------------------------------------------------------
(* Claims about the rotation of a GridSpec (SpecGrid) *)

RotatedTags == {"rotated_ll", "rotated_gg", "reduced_rotated_gg"}

\* C24: a GridSpec has a rotation entry if and only if its type is rotated_ll,
\* rotated_gg or reduced_rotated_gg; the entry holds the latitude and the
\* longitude of the southern pole; and the angle of rotation is added, for
\* those types, only when the key angleOfRotationInDegrees is present.
C24_Rotation ==
    gs.status = "ok" =>
        /\ "rotation" \in DOMAIN gs.d <=> gs.d["type"] \in RotatedTags
        /\ "rotation" \in DOMAIN gs.d =>
              gs.d["rotation"] = << MdGet(md, "latitudeOfSouthernPoleInDegrees"),
                                    MdGet(md, "longitudeOfSouthernPoleInDegrees") >>
        /\ "angle_of_rotation" \in DOMAIN gs.d <=>
              (gs.d["type"] \in RotatedTags /\ MdGet(md, "angleOfRotationInDegrees") # None)
        /\ "angle_of_rotation" \in DOMAIN gs.d =>
              gs.d["angle_of_rotation"] = MdGet(md, "angleOfRotationInDegrees")[1]

\* A rotated_gg GridSpec was made with the pole (-30, 20) from a view without
\* the angle key, and has no angle of rotation.
C24_Witness ==
    /\ gs.status = "ok"
    /\ gs.d["type"] = "rotated_gg"
    /\ gs.d["rotation"] = <<Some(-30), Some(20)>>
    /\ MdGet(md, "angleOfRotationInDegrees") = None
    /\ "angle_of_rotation" \notin DOMAIN gs.d

---------------------------------------------------------------------------
(* Claims about the keys the Makers copy (SpecGrid) *)

\* The raw keys the make() of a Maker class hands to _add: its own list, the
\* scan-mode keys, and the angle of rotation for a rotated class.
RequestedKeys(cls) ==
    Range(copied_keys(cls.family))
    \cup {"jPointsAreConsecutive", "iScansNegatively", "jScansPositively"}
    \cup (IF cls.ROTATED THEN {"angleOfRotationInDegrees"} ELSE {})

\* C27: every raw key a Maker requests through _add is an entry of the
\* vocabulary, and make() never fails with "not found in vocabulary"; for a
\* lambert view, whose make() has no other ValueError, that is no ValueError.
C27_RequestedKeysInVocabulary ==
    Made =>
        /\ GridTypeOf(md) = Some("lambert") => gs.status # "ValueError"
        /\ \A i \in DOMAIN MakerClasses :
              RequestedKeys(MakerClasses[i]) \subseteq DOMAIN vocabulary

\* What holds of C27: the ten Makers other than LambertGridSpecMaker request
\* keys of the vocabulary only, and LambertGridSpecMaker requests two that
\* are not in it.
C27_AllButLambert ==
    \A i \in DOMAIN MakerClasses :
        RequestedKeys(MakerClasses[i]) \ DOMAIN vocabulary =
            IF MakerClasses[i].family = "lambert"
            THEN {"LatIn1InDegrees", "LatIn2InDegrees"}
            ELSE {}

\* make() failed with the ValueError for a lambert view that holds
\* LatIn1InDegrees and has both metric increments and its first point.
C27_Witness ==
    /\ Made
    /\ GridTypeOf(md) = Some("lambert")
    /\ MdGet(md, "LatIn1InDegrees") = Some(30)
    /\ MdGet(md, "DxInMetres") # None /\ MdGet(md, "DyInMetres") # None
    /\ gs.status = "ValueError"
    /\ gs.what = "make"

---------------------------------------------------------------------------
(* Claims about the grid of the metric families (SpecGrid) *)

MadeMetric == gs.status = "ok" /\ gs.d["type"] \in MetricTags

\* The x-direction and y-direction metric increment keys of a family
XIncrementKeys(t) ==
    CASE t = "mercator" -> <<"DiInMetres">>
      [] t \in {"polar_stereographic", "lambert"} -> <<"DxInMetres">>
      [] t = "lambert_azimuthal_equal_area" -> <<"DxInMetres", "xDirectionGridLengthInMetres">>

YIncrementKeys(t) ==
    CASE t = "mercator" -> <<"DjInMetres">>
      [] t \in {"polar_stereographic", "lambert"} -> <<"DyInMetres">>
      [] t = "lambert_azimuthal_equal_area" -> <<"DyInMetres", "yDirectionGridLengthInMetres">>

Magnitude(v) == PyAbs(Rat(v[1], 1))

\* C28: for mercator, polar_stereographic, lambert and
\* lambert_azimuthal_equal_area the grid is [|dx|, |dy|], dx read from the
\* x-direction metric increment keys of the family and dy from its
\* y-direction keys; for lambert_azimuthal_equal_area grid[0] is the
\* magnitude of the x-direction increment when the two increments differ.
C28_MetricGrid ==
    MadeMetric =>
        /\ gs.d["grid"][2] = Magnitude(FirstPresent(md, YIncrementKeys(gs.d["type"])))
        /\ FirstPresent(md, XIncrementKeys(gs.d["type"])) # None
        /\ gs.d["grid"][1] = Magnitude(FirstPresent(md, XIncrementKeys(gs.d["type"])))

\* What holds of C28: the same for mercator, polar_stereographic and lambert;
\* for lambert_azimuthal_equal_area dy is as stated and dx is DyInMetres when
\* that key is present, else xDirectionGridLengthInMetres.
C28_MetricGridAsCoded ==
    MadeMetric =>
        /\ gs.d["grid"][2] = Magnitude(FirstPresent(md, YIncrementKeys(gs.d["type"])))
        /\ gs.d["grid"][1] =
              IF gs.d["type"] = "lambert_azimuthal_equal_area"
              THEN Magnitude(FirstPresent(md, <<"DyInMetres", "xDirectionGridLengthInMetres">>))
              ELSE Magnitude(FirstPresent(md, XIncrementKeys(gs.d["type"])))

\* A lambert_azimuthal_equal_area GridSpec was made for a view with
\* DxInMetres = -4000 and DyInMetres = 5000, and its grid is [5000, 5000].
C28_Witness ==
    /\ MadeMetric
    /\ gs.d["type"] = "lambert_azimuthal_equal_area"
    /\ MdGet(md, "DxInMetres") = Some(-4000)
    /\ MdGet(md, "DyInMetres") = Some(5000)
    /\ gs.d["grid"] = <<Rat(5000, 1), Rat(5000, 1)>>

---------------------------------------------------------------------------
(* Claims about the patch of override (SpecMeta) *)

\* The clone the last override made, and the handle it was made from
NewHandle == handles[Len(handles)]

SourceHandle == handles[facades[last.f].h]

Count(log, op) == Cardinality({i \in DOMAIN log : log[i] = op})

\* C25: in override, bitsPerValue is set on the clone from the source handle
\* only when the clone is headers-only, the patch has no bitsPerValue and the
\* value of the clone differs from the source's; after a headers-only
\* override whose patch has no bitsPerValue the clone's bitsPerValue equals
\* the source's whenever both hold one; and a bitsPerValue of the patch is the
\* one the clone ends with.  The patch is the merged one, d.
C25_BitsPerValue ==
    last.op = "override" =>
        LET inPatch == "bitsPerValue" \in DOMAIN last.d
            cloned == Handle_clone(SourceHandle, last.headers_only_clone)
        IN  /\ "set_long" \in Range(NewHandle.log) =>
                  /\ last.headers_only_clone
                  /\ ~inPatch
                  /\ cloned.keys["bitsPerValue"] # SourceHandle.keys["bitsPerValue"]
            /\ (/\ last.headers_only_clone
                /\ ~inPatch
                /\ SourceHandle.keys["bitsPerValue"] # None
                /\ NewHandle.keys["bitsPerValue"] # None)
                  => NewHandle.keys["bitsPerValue"] = SourceHandle.keys["bitsPerValue"]
            /\ inPatch => NewHandle.keys["bitsPerValue"] = Some(last.d["bitsPerValue"])

\* A headers-only override with an empty patch was made on a handle of 16
\* bits per value: the clone was set back from 0 to 16.
C25_Witness ==
    /\ last.op = "override"
    /\ last.headers_only_clone
    /\ DOMAIN last.d = {}
    /\ SourceHandle.keys["bitsPerValue"] = Some(IntV(16))
    /\ NewHandle.log = <<"clone_headers_only", "set_long">>
    /\ NewHandle.keys["bitsPerValue"] = Some(IntV(16))

\* C26: in override the gridspec entry is not among the keys written to the
\* clone; the keys written are the caller's keys merged with the keys of the
\* conversion, a key of the conversion replacing a caller's key of the same
\* name; they are written by one set_multiple, after the clone is made, and
\* by none when the merged patch is empty; the conversion is given the edition
\* of the patch when it has one, else the edition of the facade.
C26_MergedPatch ==
    last.op = "override" =>
        /\ "gridspec" \notin DOMAIN last.d
        /\ DOMAIN last.d = DOMAIN last.patch \cup DOMAIN last.conv.md
        /\ \A k \in DOMAIN last.d :
              /\ last.d[k] = IF k \in DOMAIN last.conv.md THEN last.conv.md[k] ELSE last.patch[k]
              /\ NewHandle.keys[k] = Some(last.d[k])
        /\ NewHandle.log[1] \in {"clone", "clone_headers_only"}
        /\ Count(NewHandle.log, "set_multiple") = IF DOMAIN last.d = {} THEN 0 ELSE 1
        /\ last.gridspec # None =>
              last.edition = Some(IF "edition" \in DOMAIN last.patch THEN last.patch["edition"]
                                  ELSE SourceHandle.keys["edition"][1])
        /\ last.gridspec = None => (last.edition = None /\ last.d = last.patch)

\* An override was made with Ni=4 and edition=1 from the caller and a gridspec
\* whose conversion gives Ni=2: the conversion was given edition 1 and the
\* clone has Ni=2, written by one set_multiple.
C26_Witness ==
    /\ last.op = "override"
    /\ last.gridspec # None
    /\ "Ni" \in DOMAIN last.patch
    /\ last.patch["Ni"] = IntV(4)
    /\ last.conv.md["Ni"] = IntV(2)
    /\ last.edition = Some(IntV(1))
    /\ SourceHandle.keys["edition"] = Some(IntV(2))
    /\ NewHandle.keys["Ni"] = Some(IntV(2))
    /\ Count(NewHandle.log, "set_multiple") = 1

---------------------------------------------------------------------------
(* earthkit/data/core/settings.py: Settings, its temporary contexts and set *)

\* Most nested temporary contexts, and most callbacks registered
MaxDepth == 2

MaxCallbacks == 1

NoneV == [t |-> "NoneType", i |-> 0, s |-> ""]

\* Interval(8, 4096); membership of an integer between the two ends
CheckBytesInterval == [lo |-> 8, hi |-> 4096]

Interval_contains(interval, v) == interval.lo <= v.i /\ v.i <= interval.hi

\* IntervalValidator.check
IntervalValidator_check(interval, value) == Interval_contains(interval, value)

\* Setting.__init__: kind is type(default)
Setting(default, getter, validator) ==
    [default |-> default, kind |-> default.t, getter |-> getter, validator |-> validator]

\* The entries of SETTINGS_AND_HELP the calls below name
SETTINGS_AND_HELP ==
       ("number-of-download-threads" :> Setting(IntV(5), None, None))
    @@ ("cache-policy" :> Setting(StrV("persistent"), None, None))
    @@ ("url-download-timeout" :> Setting(StrV("30s"), Some("_as_seconds"), None))
    @@ ("reader-type-check-bytes" :> Setting(IntV(64), None, Some(CheckBytesInterval)))

DEFAULTS == [k \in DOMAIN SETTINGS_AND_HELP |-> SETTINGS_AND_HELP[k].default]

\* The decimal numerals of the integers in use
Decimals == ("5" :> 5) @@ ("7" :> 7) @@ ("64" :> 64)

\* int(value)
py_int(value) ==
    CASE value.t = "int" -> Ok(value)
      [] value.t = "str" ->
            IF value.s \in DOMAIN Decimals THEN Ok(IntV(Decimals[value.s]))
            ELSE Err("ValueError", "invalid literal for int() with base 10")
      [] OTHER -> Err("TypeError", "int() argument must be a string or a real number")

\* str(value)
py_str(value) ==
    CASE value.t = "str" -> Ok(value)
      [] value.t = "int" -> Ok(StrV(CHOOSE s \in DOMAIN Decimals : Decimals[s] = value.i))
      [] OTHER -> Ok(StrV("None"))

\* value = klass(value)
klass_call(kind, value) ==
    CASE kind = "int" -> py_int(value)
      [] kind = "str" -> py_str(value)
      [] OTHER -> Ok(value)

\* Settings.__init__
Settings_init(settings_yaml, defaults, callbacks) ==
    [settings_yaml |-> settings_yaml, settings |-> defaults, callbacks |-> callbacks, stack |-> <<>>]

\* What save_settings leaves in the file: the names whose value is not the default
save_settings(settings) ==
    LET written == {k \in DOMAIN settings \cap DOMAIN SETTINGS_AND_HELP :
                        settings[k] # SETTINGS_AND_HELP[k].default}
    IN  [k \in written |-> settings[k]]

\* The outcome of a call on a Settings object: its result, the object after
\* the call, how many times _save was called, what was written to the file
\* and the callbacks called, in order
Outcome(result, self, save_calls, written, called) ==
    [result |-> result, self |-> self, save_calls |-> save_calls, written |-> written, called |-> called]

Raised(e, why, self) == Outcome(Err(e, why), self, 0, None, <<>>)

\* Settings._changed: _save, then _notify
Settings_changed(self) ==
    Outcome(Ok(None), self, 1,
            IF self.settings_yaml = None THEN None ELSE Some(save_settings(self.settings)),
            self.callbacks)

\* Settings.set(name, value) on the object self; getter_ok tells whether the
\* getter of the setting accepts the value
Settings_set(self, name, value, getter_ok) ==
    IF name \notin DOMAIN SETTINGS_AND_HELP
    THEN Raised("KeyError", "No setting name", self)
    ELSE
    LET h == SETTINGS_AND_HELP[name]
        converted == IF h.kind \in {"bool", "int", "float", "str"}
                     THEN klass_call(h.kind, value) ELSE Ok(value)
    IN  IF converted.err # "ok" THEN Raised(converted.err, converted.v, self)
        ELSE
        LET v == IF h.getter # None THEN value ELSE converted.v
        IN  IF h.getter # None /\ ~getter_ok
            THEN Raised("getter", "the getter rejects the value", self)
            ELSE IF h.getter = None /\ v.t # h.kind
            THEN Raised("TypeError", "Setting must be of type", self)
            ELSE IF h.validator # None /\ ~IntervalValidator_check(h.validator[1], v)
            THEN Raised("ValueError", "Settings cannot be set to", self)
            ELSE Settings_changed([self EXCEPT !.settings[name] = v])

\* Settings.reset(name); name is None or Some(name)
Settings_reset(self, name) ==
    IF name = None THEN Settings_changed([self EXCEPT !.settings = DEFAULTS])
    ELSE IF name[1] \notin DOMAIN DEFAULTS THEN Raised("KeyError", "No setting name", self)
    ELSE Settings_changed([self EXCEPT !.settings[name[1]] = DEFAULTS[name[1]]])

\* Settings.get(name); the result of a getter is kept as the getter's name
\* and its argument
Settings_get(self, name) ==
    IF name \notin DOMAIN SETTINGS_AND_HELP THEN Err("KeyError", "No setting name")
    ELSE LET h == SETTINGS_AND_HELP[name]
             value == self.settings[name]
         IN  IF h.getter = None THEN Ok(value)
             ELSE Ok([t |-> h.getter[1], i |-> value.i, s |-> value.s])

\* forward that always calls the function on SETTINGS itself
forward_to_self(S) == 0

\* forward: the level a decorated method acts on, 0 for SETTINGS itself and
\* i for the i-th entry of its stack
forward(S) == IF S.stack # <<>> THEN Len(S.stack) ELSE 0

Level(S, i) == IF i = 0 THEN S ELSE S.stack[i]

\* SETTINGS after the object of level i became self
WithLevel(S, i, self) ==
    IF i = 0 THEN [self EXCEPT !.stack = S.stack] ELSE [S EXCEPT !.stack[i] = self]

\* Settings.temporary on the object self: the temporary settings, or the
\* error of its set
Settings_temporary(self, name, value, getter_ok) ==
    LET tmp == Settings_init(None, self.settings, self.callbacks)
    IN  IF name # None THEN Settings_set(tmp, name[1], value, getter_ok)
        ELSE Outcome(Ok(None), tmp, 0, None, <<>>)

\* The file after a call that wrote to it or not
FileAfter(written) == IF written = None THEN yamlFile ELSE written[1]

\* The calls of set: names in and out of SETTINGS_AND_HELP with values of
\* the right and of other types, and whether the getter, if the setting has
\* one, accepts the value
SetCalls ==
    { <<"no-such-setting", IntV(7), TRUE>>,
      <<"number-of-download-threads", IntV(7), TRUE>>,
      <<"number-of-download-threads", StrV("7"), TRUE>>,
      <<"number-of-download-threads", StrV("abc"), TRUE>>,
      <<"number-of-download-threads", NoneV, TRUE>>,
      <<"cache-policy", StrV("persistent"), TRUE>>,
      <<"cache-policy", IntV(7), TRUE>>,
      <<"url-download-timeout", StrV("30s"), TRUE>>,
      <<"url-download-timeout", StrV("30s"), FALSE>>,
      <<"reader-type-check-bytes", IntV(64), TRUE>>,
      <<"reader-type-check-bytes", IntV(7), TRUE>>,
      <<"reader-type-check-bytes", StrV("abc"), TRUE>> }

SettingNames == {c[1] : c \in SetCalls}

\* The calls of temporary: without a name, and with a name and a value
TemporaryCalls ==
    { <<None, NoneV>>,
      <<Some("no-such-setting"), IntV(7)>>,
      <<Some("number-of-download-threads"), IntV(7)>>,
      <<Some("reader-type-check-bytes"), IntV(7)>> }

InitSettings ==
    /\ SETTINGS = Settings_init(Some("settings.yaml"), DEFAULTS, <<>>)
    /\ yamlFile = save_settings(DEFAULTS)
    /\ entered = <<>>
    /\ last = NoLast
    /\ md = NoKeys /\ gs = NoGridSpec /\ handles = <<>> /\ facades = <<>>
    /\ eccVersion = NoVersion /\ geo = "none" /\ coordReads = 0 /\ shp = None
    /\ callers = NoCallers /\ serialized = FALSE

Idle_settings == <<md, gs, handles, facades, eccVersion, geo, coordReads, shp, callers, serialized>>

\* The record of a call: the level it acted on and its outcome
Called(op, name, value, level, o) ==
    [op |-> op, name |-> name, value |-> value, level |-> level, result |-> o.result,
     save_calls |-> o.save_calls, written |-> o.written, called |-> o.called]

\* settings.set(name, value)
SettingsSet ==
    \E c \in SetCalls :
        LET i == forward(SETTINGS)
            o == Settings_set(Level(SETTINGS, i), c[1], c[2], c[3])
        IN  /\ SETTINGS' = WithLevel(SETTINGS, i, o.self)
            /\ yamlFile' = FileAfter(o.written)
            /\ last' = Called("set", Some(c[1]), c[2], i, o)
            /\ UNCHANGED entered
            /\ UNCHANGED Idle_settings

\* settings.reset(name)
SettingsReset ==
    \E name \in {None} \cup {Some(n) : n \in SettingNames} :
        LET i == forward(SETTINGS)
            o == Settings_reset(Level(SETTINGS, i), name)
        IN  /\ SETTINGS' = WithLevel(SETTINGS, i, o.self)
            /\ yamlFile' = FileAfter(o.written)
            /\ last' = Called("reset", name, NoneV, i, o)
            /\ UNCHANGED entered
            /\ UNCHANGED Idle_settings

\* settings.get(name)
SettingsGet ==
    \E name \in SettingNames :
        LET i == forward(SETTINGS)
            self == Level(SETTINGS, i)
        IN  /\ last' = Called("get", Some(name), NoneV, i,
                              Outcome(Settings_get(self, name), self, 0, None, <<>>))
            /\ UNCHANGED <<SETTINGS, yamlFile, entered>>
            /\ UNCHANGED Idle_settings

\* with settings.temporary(name, value): the temporary settings are made
\* from the level forward gives, and new_settings pushes them
Temporary ==
    /\ Len(SETTINGS.stack) < MaxDepth
    /\ \E c \in TemporaryCalls :
        LET i == forward(SETTINGS)
            o == Settings_temporary(Level(SETTINGS, i), c[1], c[2], c[3])
        IN  /\ last' = Called("temporary", c[1], c[2], i, o)
            /\ yamlFile' = FileAfter(o.written)
            /\ IF o.result.err = "ok"
               THEN /\ SETTINGS' = [SETTINGS EXCEPT !.stack = Append(@, o.self)]
                    /\ entered' = Append(entered, [depth |-> Len(SETTINGS.stack),
                                                   settings |-> Level(SETTINGS, i).settings,
                                                   file |-> yamlFile])
               ELSE UNCHANGED <<SETTINGS, entered>>
            /\ UNCHANGED Idle_settings

\* The with block of new_settings is left, by its end or by an exception:
\* SETTINGS._stack.pop(), then SETTINGS._notify()
ExitTemporary ==
    /\ SETTINGS.stack # <<>>
    /\ \E exception \in BOOLEAN :
        /\ SETTINGS' = [SETTINGS EXCEPT !.stack = SubSeq(@, 1, Len(@) - 1)]
        /\ entered' = SubSeq(entered, 1, Len(entered) - 1)
        /\ last' = [op |-> "exit", name |-> None, value |-> NoneV, level |-> Len(SETTINGS.stack),
                    result |-> IF exception THEN Err("Exception", "raised in the with block") ELSE Ok(None),
                    save_calls |-> 0, written |-> None, called |-> SETTINGS.callbacks]
        /\ UNCHANGED yamlFile
        /\ UNCHANGED Idle_settings

\* settings.on_change(callback): not forwarded, the callback joins SETTINGS
OnChange ==
    /\ Len(SETTINGS.callbacks) < MaxCallbacks
    /\ SETTINGS' = [SETTINGS EXCEPT !.callbacks = Append(@, Len(@) + 1)]
    /\ last' = [op |-> "on_change", name |-> None, value |-> NoneV, level |-> 0, result |-> Ok(None),
                save_calls |-> 0, written |-> None, called |-> <<>>]
    /\ UNCHANGED <<yamlFile, entered>>
    /\ UNCHANGED Idle_settings

NextSettings == SettingsSet \/ SettingsReset \/ SettingsGet \/ Temporary \/ ExitTemporary \/ OnChange

SpecSettings == InitSettings /\ [][NextSettings]_vars

\* The values held by SETTINGS and by every entry of its stack but the last
Enclosing(S) == [i \in 0..(Len(S.stack) - 1) |-> Level(S, i).settings]

\* C29: while a temporary context is active, get, set and reset act on the
\* innermost temporary settings: the depth, the values of every enclosing
\* level and the settings file are left as they were, and get returns the
\* innermost value.  When a context is left, by its end or by an exception,
\* the last entry of the stack is popped, the depth is the one found on
\* entry, the enclosing level holds the values it held on entry, every
\* callback of SETTINGS is called once, and the file is as it was on entry.
C29_TemporaryScoped ==
    [][ /\ (last'.op \in {"get", "set", "reset"} /\ SETTINGS.stack # <<>>) =>
              /\ last'.level = Len(SETTINGS.stack)
              /\ Len(SETTINGS'.stack) = Len(SETTINGS.stack)
              /\ Enclosing(SETTINGS') = Enclosing(SETTINGS)
              /\ yamlFile' = yamlFile
              /\ last'.written = None
              /\ last'.op = "get" =>
                    last'.result = Settings_get(SETTINGS.stack[Len(SETTINGS.stack)], last'.name[1])
        /\ last'.op = "exit" =>
              LET e == entered[Len(entered)]
              IN  /\ SETTINGS'.stack = SubSeq(SETTINGS.stack, 1, Len(SETTINGS.stack) - 1)
                  /\ Len(SETTINGS'.stack) = e.depth
                  /\ Level(SETTINGS', e.depth).settings = e.settings
                  /\ last'.called = SETTINGS'.callbacks
                  /\ yamlFile' = e.file
                  /\ yamlFile' = save_settings(SETTINGS'.settings)
      ]_vars

\* An inner context was left by an exception while an outer one stays
\* active: the outer context keeps the 7 threads set in it, SETTINGS keeps
\* its defaults, its callback was called and the file holds no value.
C29_Witness ==
    /\ last.op = "exit"
    /\ last.level = 2
    /\ last.result.err = "Exception"
    /\ last.called = <<1>>
    /\ Len(SETTINGS.stack) = 1
    /\ SETTINGS.stack[1].settings["number-of-download-threads"] = IntV(7)
    /\ SETTINGS.settings = DEFAULTS
    /\ yamlFile = save_settings(DEFAULTS)

\* Whether the value of a set call has the type of the setting's default
RightType(name, value) == value.t = SETTINGS_AND_HELP[name].kind

\* What a set call has done besides raising or storing: a failing call
\* leaves SETTINGS and the file as they were, saves nothing and calls no
\* callback; a successful one calls _save once and then every callback of
\* the object it acted on once.  (An action formula, used in the two below.)
SetEffects ==
    LET self == Level(SETTINGS, last'.level)
    IN  /\ last'.result.err # "ok" =>
              /\ SETTINGS' = SETTINGS
              /\ yamlFile' = yamlFile
              /\ last'.save_calls = 0
              /\ last'.written = None
              /\ last'.called = <<>>
        /\ last'.result.err = "ok" =>
              /\ last'.save_calls = 1
              /\ last'.called = self.callbacks
              /\ self.settings_yaml # None =>
                    /\ last'.written = Some(save_settings(Level(SETTINGS', last'.level).settings))
                    /\ yamlFile' = last'.written[1]
              /\ self.settings_yaml = None => (last'.written = None /\ yamlFile' = yamlFile)

\* C30: set with an unknown name raises KeyError, with a value whose type is
\* not the setting's raises TypeError, with a value its validator rejects
\* raises ValueError; a failing set changes nothing, saves nothing and calls
\* no callback; a successful set stores the value, saves once and calls the
\* callbacks once.
C30_SetErrors ==
    [][ last'.op = "set" =>
          LET name == last'.name[1]
              value == last'.value
              known == name \in DOMAIN SETTINGS_AND_HELP
              h == SETTINGS_AND_HELP[name]
          IN  /\ ~known => last'.result.err = "KeyError"
              /\ (known /\ h.getter = None /\ ~RightType(name, value)) =>
                    last'.result.err = "TypeError"
              /\ (known /\ RightType(name, value) /\ h.validator # None
                    /\ ~IntervalValidator_check(h.validator[1], value)) =>
                    last'.result.err = "ValueError"
              /\ last'.result.err = "ok" =>
                    Level(SETTINGS', last'.level).settings[name] = value
              /\ SetEffects
      ]_vars

\* set as the code has it: a value of another type is first converted with
\* the type of the default; the error of a failing conversion is the error
\* of the call (ValueError for a string that is no numeral, TypeError for
\* None), and a converted value is checked by the validator and stored.
C30_SetAsCoded ==
    [][ last'.op = "set" =>
          LET name == last'.name[1]
              value == last'.value
              known == name \in DOMAIN SETTINGS_AND_HELP
              h == SETTINGS_AND_HELP[name]
              converted == klass_call(h.kind, value)
          IN  /\ ~known => last'.result.err = "KeyError"
              /\ (known /\ converted.err # "ok") => last'.result.err = converted.err
              /\ (known /\ converted.err = "ok" /\ h.validator # None
                    /\ ~IntervalValidator_check(h.validator[1], converted.v)) =>
                    last'.result.err = "ValueError"
              /\ (known /\ h.getter = None /\ last'.result.err = "ok") =>
                    Level(SETTINGS', last'.level).settings[name] = converted.v
              /\ (known /\ h.getter = None /\ last'.result.err = "TypeError") =>
                    (value.t = "NoneType" /\ converted.err = "TypeError")
              /\ SetEffects
      ]_vars

\* set("number-of-download-threads", "abc") was called: the string is not of
\* the setting's type and the call raised the ValueError of int("abc").
C30_Witness ==
    /\ last.op = "set"
    /\ last.name = Some("number-of-download-threads")
    /\ last.value = StrV("abc")
    /\ last.result.err = "ValueError"

\* set("cache-policy", 7) was called: the integer was stored as the string
\* "7" and no error was raised.
C30_StoredConverted ==
    /\ last.op = "set"
    /\ last.name = Some("cache-policy")
    /\ last.value = IntV(7)
    /\ last.result.err = "ok"
    /\ Level(SETTINGS, last.level).settings["cache-policy"] = StrV("7")

=============================================================================
